---- MODULE Spec2Model ----
(***************************************************************************)
(* A model of kilt's rework engine: the operation queue and its executor   *)
(* (pkg/queue), the rework controller with its state files (pkg/rework),   *)
(* the part of the repository facade the controller drives (pkg/repo) and  *)
(* the walks of the dependency graph (pkg/dependency).                      *)
(*                                                                         *)
(* The specifications share the module's variables:                        *)
(*   Spec       runs the commands of `kilt rework` (begin, continue, skip, *)
(*              validate, finish, abort) as processes that may stop at any *)
(*              point, over one repository;                                *)
(*   SpecBegin  draws a patchset cache, a dependency graph and a selector  *)
(*              list and applies NewBeginCommand's queue construction;     *)
(*   SpecRun    runs begin --auto and validate on the drawn inputs with    *)
(*              every pick succeeding;                                     *)
(*   SpecBuild  runs `kilt build --begin` and `kilt build --continue` on   *)
(*              the drawn inputs;                                          *)
(*   SpecQueue  draws a queue and writes and parses its text;              *)
(*   SpecGraph  draws a graph and a patchset and walks its dependencies;   *)
(*   SpecEdit   edits a dependency graph with Add and Remove, or loads it  *)
(*              from a file, and validates it;                             *)
(*   SpecMemo   edits one graph object with Add and Remove and walks its   *)
(*              reverse dependencies in between;                           *)
(*   SpecSteps  draws a patchset and the nested state files and builds the *)
(*              nested queue of Rework and Apply;                          *)
(*   SpecWalk   builds the patchset cache from the commits a revwalk       *)
(*              yields, one commit at a time.                              *)
(***************************************************************************)
EXTENDS Integers, Sequences, FiniteSets, TLC

VARIABLES
    cache,      \* repo.PatchsetCache().Slice: the patchsets, base to tip
    deps,       \* StructGraph.dependencies: uuid -> list of dependency uuids
    reverseDependencies,
                \* StructGraph.reverseDependencies: the reverse index the
                \* graph object holds, uuid -> list of patchsets
    selectors,  \* SpecBegin: the selector list handed to NewBeginCommand
    built,      \* SpecBegin: what NewBeginCommand built from them
    input,      \* SpecQueue, SpecGraph: the argument drawn for the function;
                \* SpecEdit: the file the graph was loaded from; SpecWalk:
                \* the number of commits walked
    output,     \* SpecQueue, SpecGraph, SpecEdit, SpecSteps: what the last
                \* call returned
    repo,       \* the backing store: HEAD, the branch, the two rework refs,
                \* the index's conflict
    state,      \* the four state files under <git dir>/kilt/rework, as text
    proc,       \* the running command: its executor queue and its position
    hist        \* history of the run, read by the properties only

beginVars == <<cache, deps, reverseDependencies, selectors, built, input, output>>
runVars == <<repo, state, proc, hist>>
vars == <<cache, deps, reverseDependencies, selectors, built, input, output,
          repo, state, proc, hist>>

\* ------------------------------------------------------------------ bounds

\* Number of patchsets in the cache SpecBegin draws.
MaxPatchsets == 4
\* Largest number of PatchsetTarget selectors in a drawn selector list.
MaxNamed == 2

\* Spec: the number of commands built in one run, one after the other.
MaxCommands == 3

\* SpecQueue: the longest drawn queue and the longest argument list.
MaxItems == 2
MaxArgs == 2

\* ----------------------------------------------------------- sequence help

Range(s) == {s[i] : i \in 1..Len(s)}

IsPrefix(s, t) == Len(s) <= Len(t) /\ SubSeq(t, 1, Len(s)) = s

\* The ascending sequence of a finite set of integers.
RECURSIVE SetToSeq(_)
SetToSeq(S) ==
    IF S = {} THEN <<>>
    ELSE LET m == CHOOSE x \in S : \A y \in S : x <= y
         IN <<m>> \o SetToSeq(S \ {m})

\* How many times x occurs in s.
RECURSIVE Count(_, _)
Count(s, x) ==
    IF s = <<>> THEN 0
    ELSE (IF Head(s) = x THEN 1 ELSE 0) + Count(Tail(s), x)

\* ------------------------------------------------------- patchsets, items

\* patchset.Patchset: name, uuid, metadata commit id ("" when the patchset
\* exists only as floating patches), patches and floating patches.
Patchset(name, uuid, metadata, patches, floating) ==
    [name |-> name, uuid |-> uuid, metadata |-> metadata,
     patches |-> patches, floating |-> floating]

\* Patchset.SameAs: equality of the UUIDs alone.
SameAs(p, p2) == p.uuid = p2.uuid

\* queue.Item: an operation name with its arguments.
Item(op, args) == [op |-> op, args |-> args]

\* Queue.Enqueue appends one item.
Enqueue(q, op, args) == Append(q, Item(op, args))

\* A Pop that returns the first item and leaves it in the queue.
PopKeeps(q) ==
    IF Len(q) < 1 THEN [item |-> [op |-> "", args |-> <<>>], queue |-> q, err |-> "Empty"]
    ELSE [item |-> Head(q), queue |-> q, err |-> "none"]

\* A Pop that takes the item at the back of the queue.
PopBack(q) ==
    IF Len(q) < 1 THEN [item |-> [op |-> "", args |-> <<>>], queue |-> q, err |-> "Empty"]
    ELSE [item |-> q[Len(q)], queue |-> SubSeq(q, 1, Len(q) - 1), err |-> "none"]

\* Queue.Pop: the first item is removed, or ErrEmpty returned.
Pop(q) ==
    IF Len(q) < 1 THEN [item |-> [op |-> "", args |-> <<>>], queue |-> q, err |-> "Empty"]
    ELSE [item |-> Head(q), queue |-> Tail(q), err |-> "none"]

\* PatchsetCache.Index: name -> position in the slice, from 0.
Index(slice, name) ==
    (CHOOSE i \in 1..Len(slice) : slice[i].name = name) - 1

\* ---------------------------------------------------------------- selectors

FloatingTargets == [kind |-> "Floating"]
AllTargets == [kind |-> "All"]
NoTargets == [kind |-> "None"]
PatchsetTarget(name) == [kind |-> "Name", name |-> name]

\* TargetSelector.Select of the four selector types.
Select(s, p) ==
    CASE s.kind = "Floating" -> Len(p.floating) > 0
      [] s.kind = "All" -> TRUE
      [] s.kind = "None" -> FALSE
      [] s.kind = "Name" -> s.name = p.name

\* selectPatchset: some selector of the list selects the patchset.
selectPatchset(sels, p) == \E i \in 1..Len(sels) : Select(sels[i], p)

\* ------------------------------------------------- reverse dependency walk

\* calculateReverseDependencies: for the patchset with this uuid, the
\* patchsets that name it among their predicates, in slice order.
calculateReverseDependencies(slice, dependencies, uuid) ==
    SelectSeq(slice, LAMBDA ps : uuid \in Range(dependencies[ps.uuid]))

\* StructGraph.reverseDependencies before the first calculation: a nil map.
NoIndex == <<>>

\* The walk's step to the next queued patchset: queue[1 : len(queue)-1],
\* which drops the visited head and also the last element queued.
QueueAdvance(queue) == SubSeq(queue, 2, Len(queue) - 1)

\* TransitiveReverseDependencies: the loop over the work queue.
RECURSIVE TRDLoop(_, _, _, _, _)
TRDLoop(slice, dependencies, queue, seen, patchsets) ==
    IF queue = <<>> THEN patchsets
    ELSE LET ps == Head(queue)
             new == SelectSeq(
                        calculateReverseDependencies(slice, dependencies, ps.uuid),
                        LAMBDA x : x.uuid \notin seen)
             queue2 == queue \o new
             seen2 == seen \cup {new[i].uuid : i \in 1..Len(new)}
         IN IF Len(queue2) > 1
            THEN TRDLoop(slice, dependencies, QueueAdvance(queue2), seen2,
                         patchsets \o new)
            ELSE patchsets \o new

TransitiveReverseDependencies(slice, dependencies, ps) ==
    TRDLoop(slice, dependencies, <<ps>>, {ps.uuid}, <<>>)

\* calculateReverseDependencies, the whole map: it has a key for every
\* patchset of the slice and for every patchset one of them names.
ReverseIndex(slice, dependencies) ==
    LET keys == {slice[i].uuid : i \in 1..Len(slice)}
                  \cup UNION {Range(dependencies[slice[i].uuid]) : i \in 1..Len(slice)}
    IN [u \in keys |-> calculateReverseDependencies(slice, dependencies, u)]

\* TransitiveReverseDependencies: the loop over the work queue, reading the
\* index the graph holds.
RECURSIVE IndexLoop(_, _, _, _)
IndexLoop(index, queue, seen, patchsets) ==
    IF queue = <<>> THEN patchsets
    ELSE LET ps == Head(queue)
             listed == IF ps.uuid \in DOMAIN index THEN index[ps.uuid] ELSE <<>>
             new == SelectSeq(listed, LAMBDA x : x.uuid \notin seen)
             queue2 == queue \o new
             seen2 == seen \cup {new[i].uuid : i \in 1..Len(new)}
         IN IF Len(queue2) > 1
            THEN IndexLoop(index, QueueAdvance(queue2), seen2, patchsets \o new)
            ELSE patchsets \o new

\* TransitiveReverseDependencies on a graph object that holds an index: the
\* index it leaves in the object and the patchsets it returns. The map is
\* calculated when the one the object holds has no key
\* (len(d.reverseDependencies) == 0), and kept.
MemoisedReverseDependencies(index, slice, dependencies, ps) ==
    LET held == IF DOMAIN index = {} THEN ReverseIndex(slice, dependencies)
                ELSE index
    IN [reverseDependencies |-> held,
        patchsets |-> IndexLoop(held, <<ps>>, {ps.uuid}, <<>>)]

\* sort.Slice by cache index. Elements that compare equal are the same
\* patchset, so the result does not depend on the sort's stability.
SortByIndex(slice, selected) ==
    LET RECURSIVE Go(_)
        Go(i) == IF i > Len(slice) THEN <<>>
                 ELSE [k \in 1..Count(selected, slice[i]) |-> slice[i]] \o Go(i + 1)
    IN Go(1)

\* selectRevDepPatchsets: the loop over the cache. A patchset not seen yet
\* that some selector selects is appended, followed by its transitive
\* reverse dependencies, which are marked seen but appended unconditionally.
RECURSIVE SelectLoop(_, _, _, _, _, _)
SelectLoop(slice, dependencies, sels, i, seen, selected) ==
    IF i > Len(slice) THEN selected
    ELSE LET p == slice[i]
         IN IF p.name \notin seen /\ selectPatchset(sels, p)
            THEN LET ps == TransitiveReverseDependencies(slice, dependencies, p)
                 IN SelectLoop(slice, dependencies, sels, i + 1,
                               seen \cup {p.name} \cup {ps[k].name : k \in 1..Len(ps)},
                               (selected \o <<p>>) \o ps)
            ELSE SelectLoop(slice, dependencies, sels, i + 1, seen, selected)

selectRevDepPatchsets(slice, dependencies, sels) ==
    SortByIndex(slice, SelectLoop(slice, dependencies, sels, 1, {}, <<>>))

\* ------------------------------------------------ forward dependency walk

\* The patchset a dependency predicate points to.
PredicatePatchset(slice, uuid) == CHOOSE p \in Range(slice) : p.uuid = uuid

\* TransitiveDependencies: the loop over the work queue, which advances
\* with queue[1 : len(queue)-1] like the reverse walk.
RECURSIVE TDLoop(_, _, _, _, _)
TDLoop(slice, dependencies, queue, seen, patchsets) ==
    IF queue = <<>> THEN patchsets
    ELSE LET ps == Head(queue)
             predicates == [k \in 1..Len(dependencies[ps.uuid]) |->
                               PredicatePatchset(slice, dependencies[ps.uuid][k])]
             new == SelectSeq(predicates, LAMBDA x : x.uuid \notin seen)
             queue2 == queue \o new
             seen2 == seen \cup {new[i].uuid : i \in 1..Len(new)}
         IN IF Len(queue2) > 1
            THEN TDLoop(slice, dependencies, QueueAdvance(queue2), seen2,
                        patchsets \o new)
            ELSE patchsets \o new

TransitiveDependencies(slice, dependencies, ps) ==
    TDLoop(slice, dependencies, <<ps>>, {ps.uuid}, <<>>)

\* selectDependentPatchsets: the loop over the cache. A patchset not seen
\* yet that some selector selects is appended, followed by its transitive
\* dependencies, which are marked seen but appended unconditionally.
RECURSIVE SelectDependentLoop(_, _, _, _, _, _)
SelectDependentLoop(slice, dependencies, sels, i, seen, selected) ==
    IF i > Len(slice) THEN selected
    ELSE LET p == slice[i]
         IN IF p.name \notin seen /\ selectPatchset(sels, p)
            THEN LET ps == TransitiveDependencies(slice, dependencies, p)
                 IN SelectDependentLoop(slice, dependencies, sels, i + 1,
                        seen \cup {p.name} \cup {ps[k].name : k \in 1..Len(ps)},
                        (selected \o <<p>>) \o ps)
            ELSE SelectDependentLoop(slice, dependencies, sels, i + 1, seen, selected)

selectDependentPatchsets(slice, dependencies, sels) ==
    SortByIndex(slice, SelectDependentLoop(slice, dependencies, sels, 1, {}, <<>>))

\* NewBeginBuildCommand's queue: Begin, Checkout base, an Apply for every
\* selected patchset, UpdateHead, Finish base.
NewBeginBuildQueue(slice, dependencies, base, sels) ==
    LET selected == selectDependentPatchsets(slice, dependencies, sels)
        RECURSIVE Loop(_, _)
        Loop(q, k) == IF k > Len(selected) THEN q
                      ELSE Loop(Enqueue(q, "Apply", <<selected[k].name>>), k + 1)
    IN Enqueue(
         Enqueue(
           Loop(Enqueue(Enqueue(<<>>, "Begin", <<>>), "Checkout", <<base>>), 1),
           "UpdateHead", <<>>),
         "Finish", <<base>>)

\* ------------------------------------------------------- NewBeginCommand

\* The loop of NewBeginCommand over the patchsets: i counts the entries of
\* revDeps consumed (from 0), previous is the last patchset passed before
\* the first target (<<>> for nil).
RECURSIVE BeginLoop(_, _, _, _, _, _, _)
BeginLoop(patchsets, revDeps, n, i, first, previous, q) ==
    IF n > Len(patchsets) THEN q
    ELSE LET p == patchsets[n]
         IN IF i < Len(revDeps) /\ SameAs(revDeps[i + 1], p)
            THEN LET q1 == IF first
                           THEN IF previous # <<>>
                                THEN Enqueue(q, "Checkout", <<previous[1].name>>)
                                ELSE Enqueue(q, "CheckoutBase", <<>>)
                           ELSE q
                 IN BeginLoop(patchsets, revDeps, n + 1, i + 1, FALSE, previous,
                              Enqueue(q1, "Rework", <<p.name>>))
            ELSE IF ~first
                 THEN BeginLoop(patchsets, revDeps, n + 1, i, first, previous,
                                Enqueue(q, "Apply", <<p.name>>))
                 ELSE BeginLoop(patchsets, revDeps, n + 1, i, first, <<p>>, q)

\* The queue NewBeginCommand builds when it does not fail: Begin unless a
\* rework is in progress, the loop's items, UpdateHead.
NewBeginQueue(patchsets, dependencies, sels, inProgress) ==
    LET q0 == IF inProgress THEN <<>> ELSE Enqueue(<<>>, "Begin", <<>>)
        revDeps == selectRevDepPatchsets(patchsets, dependencies, sels)
    IN Enqueue(BeginLoop(patchsets, revDeps, 1, 0, TRUE, <<>>, q0),
               "UpdateHead", <<>>)

\* ------------------------------------------------------- state file text

\* All pieces of a text, line after line.
RECURSIVE Flatten(_)
Flatten(text) == IF text = <<>> THEN <<>> ELSE Head(text) \o Flatten(Tail(text))

\* Item.MarshalText: the operation name and the arguments joined by single
\* spaces, one line. A line is kept as its list of space-separated pieces:
\* an argument that contains a space is two pieces of the line.
MarshalItem(item) ==
    LET Pieces(arg) == IF arg = "a b" THEN <<"a", "b">> ELSE <<arg>>
    IN <<item.op>> \o Flatten([i \in 1..Len(item.args) |-> Pieces(item.args[i])])

\* Queue.MarshalText: the items' lines in order.
MarshalQueue(q) == [i \in 1..Len(q) |-> MarshalItem(q[i])]

\* strings.Fields on the pieces of a text: empty pieces vanish.
Fields(pieces) == SelectSeq(pieces, LAMBDA t : t # "")

\* Item.UnmarshalText on a text: the first field is the operation, the
\* others the arguments; a text without fields leaves the item empty.
UnmarshalItem(pieces) ==
    LET f == Fields(pieces)
    IN IF Len(f) = 0 THEN Item("", <<>>) ELSE Item(f[1], Tail(f))

\* Queue.UnmarshalText: one item per line, lines without operation skipped.
RECURSIVE UnmarshalQueue(_)
UnmarshalQueue(text) ==
    IF text = <<>> THEN <<>>
    ELSE LET i == UnmarshalItem(Head(text))
         IN (IF i.op = "" THEN <<>> ELSE <<i>>) \o UnmarshalQueue(Tail(text))

\* stateFile.ReadState: the queue file parsed; an absent file is empty.
ReadState(file) == UnmarshalQueue(file)

\* stateFile.ReadCurrentState: the whole current file parsed as one item.
ReadCurrentState(file) ==
    IF Len(file) = 0 THEN <<>>
    ELSE LET i == UnmarshalItem(Flatten(file))
         IN IF i.op = "" THEN <<>> ELSE <<i>>

\* stateFile.ClearCurrentState / ClearQueueState: the file is removed.
ClearedFile == <<>>

\* A writer that leaves the current file as it is.
WriteCurrentStateLost(file, item) == file

\* A writer that leaves an empty current file.
WriteCurrentStateEmpty(file, item) == ClearedFile

\* stateFile.WriteCurrentState: the item's text replaces the file.
WriteCurrentState(file, item) ==
    IF item.op = "" THEN ClearedFile ELSE <<MarshalItem(item)>>

\* stateFile.WriteQueueState: the queue's text replaces the file; an empty
\* queue removes it.
WriteQueueState(q) == IF Len(q) = 0 THEN ClearedFile ELSE MarshalQueue(q)

\* ------------------------------------------------------ the backing store

\* The patchsets of the repository Spec runs on: bar has a floating patch, a
\* later commit whose Patchset-Name footer names bar.
MainCache ==
    << Patchset("foo", 1, "m1", <<"p1">>, <<>>),
       Patchset("bar", 2, "m2", <<"p2">>, <<"f2">>),
       Patchset("baz", 3, "m3", <<"p3">>, <<>>) >>

MainDeps == [i \in 1..Len(MainCache) |-> <<>>]

\* The commits the kilt branch holds above the base, base to tip, such that
\* walkPatchsets yields the cache: every patchset's metadata commit and
\* patches, in cache order, then the floating patches.
HistoryOf(slice) ==
    Flatten([i \in 1..Len(slice) |-> <<slice[i].metadata>> \o slice[i].patches])
        \o Flatten([i \in 1..Len(slice) |-> slice[i].floating])

History == HistoryOf(cache)

\* The selector lists runRework builds: FloatingTargets, then AllTargets
\* for --all or a PatchsetTarget for each --patchset.
MainSelectors ==
    { <<FloatingTargets>>, <<FloatingTargets, AllTargets>>,
      <<FloatingTargets, PatchsetTarget("baz")>> }

\* A commit is the set of changes it contains: ids of commits of History
\* picked onto the base, names of patchsets whose metadata commit was
\* created anew, and "edit" for a change the user made by hand. Metadata
\* commits do not change the tree.
BaseCommit == {}
TipCommit == Range(History)

MetadataIds == {cache[i].metadata : i \in 1..Len(cache)}
                 \cup {cache[i].name : i \in 1..Len(cache)}

Tree(commit) == commit \ MetadataIds

\* The commit an id of History names: everything up to it.
CommitAt(id) ==
    LET n == CHOOSE k \in 1..Len(History) : History[k] = id
    IN {History[k] : k \in 1..n}

IsCommitId(id) == id \in Range(History)

\* HEAD: attached to a branch, or detached at a commit; via names the kilt
\* ref a SetHead went through, while HEAD has not moved since.
OnBranch(b) == [t |-> "branch", name |-> b, c |-> {}, via |-> ""]
Detached(c, via) == [t |-> "detached", name |-> "", c |-> c, via |-> via]

\* git.Repository.Head() peeled to its commit.
HeadCommit(r) ==
    IF r.head.t = "branch" THEN r.branches[r.head.name] ELSE r.head.c

\* checkRework / Repo.ReworkInProgress: refs/kilt/rework/branch exists.
ReworkInProgress(r) == r.reworkBranch # <<>>

\* findKiltBranch in repo.Open: a detached HEAD needs rework/branch.
OpenOK(r) == r.head.t = "branch" \/ r.reworkBranch # <<>>

\* Repo.WriteRefHead("rework/head"): the ref is forced to HEAD's commit.
WriteRefHead(r) == [r EXCEPT !.reworkHead = <<HeadCommit(r)>>]

\* Repo.SetHead("rework/head"): rework/head is no branch, so the library
\* detaches HEAD at the commit the ref points to.
SetHead(r) == [r EXCEPT !.head = Detached(r.reworkHead[1], "rework/head")]

\* A Begin that leaves HEAD where it was.
startNewReworkNoSetHead(r) ==
    [repo |-> [WriteRefHead(r) EXCEPT !.reworkBranch = <<r.head.name>>],
     err |-> "none"]

\* A Begin that does not create rework/branch.
startNewReworkNoBranch(r) == [repo |-> SetHead(WriteRefHead(r)), err |-> "none"]

\* startNewRework: WriteRefHead, WriteSymbolicRefHead (refused on a
\* detached HEAD, and when the ref exists: it is created without force),
\* SetHead.
startNewRework(r) ==
    LET r1 == WriteRefHead(r)
    IN IF r1.head.t # "branch" THEN [repo |-> r1, err |-> "DetachedHead"]
       ELSE IF r1.reworkBranch # <<>> THEN [repo |-> r1, err |-> "BackingStore"]
       ELSE [repo |-> SetHead([r1 EXCEPT !.reworkBranch = <<r1.head.name>>]),
             err |-> "none"]

\* The UpdateHead operation: WriteRefHead, then SetHead.
updateHead(r) == [repo |-> SetHead(WriteRefHead(r)), err |-> "none"]

\* Repo.checkoutRev: the tree is checked out with the safe strategy, which
\* refuses to overwrite local changes (refused) when the tree differs from
\* HEAD's and so has files to write, then HEAD is detached at the commit
\* and the repository state cleaned up.
checkoutRev(r, commit, refused) ==
    IF refused /\ Tree(commit) # Tree(HeadCommit(r))
    THEN [repo |-> r, err |-> "BackingStore"]
    ELSE [repo |-> [r EXCEPT !.head = Detached(commit, ""), !.conflict = <<>>],
          err |-> "none"]

\* Repo.CheckoutBase.
CheckoutBase(r, refused) == checkoutRev(r, BaseCommit, refused)

\* Repo.PatchsetMap lookup: the patchsets of that name (one or none).
PatchsetMap(slice, name) == SelectSeq(slice, LAMBDA p : p.name = name)

\* Repo.CheckoutPatchset: the last patch, or the metadata commit.
CheckoutPatchset(r, slice, name, refused) ==
    LET found == PatchsetMap(slice, name)
    IN IF found = <<>> THEN [repo |-> r, err |-> "NotFound"]
       ELSE LET p == found[1]
                id == IF Len(p.patches) = 0 THEN p.metadata
                      ELSE p.patches[Len(p.patches)]
            IN IF ~IsCommitId(id) THEN [repo |-> r, err |-> "BackingStore"]
               ELSE checkoutRev(r, CommitAt(id), refused)

\* Repo.CheckoutIndirectBranch("rework/branch"), with the same strategy.
CheckoutIndirectBranch(r, refused) ==
    IF r.reworkBranch = <<>>
           \/ (refused /\ Tree(r.branches[r.reworkBranch[1]]) # Tree(HeadCommit(r)))
    THEN [repo |-> r, err |-> "BackingStore"]
    ELSE [repo |-> [r EXCEPT !.head = OnBranch(r.reworkBranch[1]),
                             !.conflict = <<>>],
          err |-> "none"]

\* cleanupReworkState: both rework refs are deleted.
cleanupReworkState(r) == [r EXCEPT !.reworkBranch = <<>>, !.reworkHead = <<>>]

\* Repo.SetIndirectBranchToHead("rework/branch").
SetIndirectBranchToHead(r) ==
    IF r.reworkBranch = <<>> THEN [repo |-> r, err |-> "BackingStore"]
    ELSE [repo |-> [r EXCEPT !.branches[r.reworkBranch[1]] = HeadCommit(r),
                             !.rewritten = TRUE],
          err |-> "none"]

\* A Finish that checks the branch out without moving it first.
finishReworkNoMove(r) ==
    LET co == CheckoutIndirectBranch(r, FALSE)
    IN IF co.err # "none" THEN co
       ELSE [repo |-> cleanupReworkState(co.repo), err |-> "none"]

\* finishRework: move the branch, check it out, clean up. The tree checked
\* out is the tree of HEAD's commit, where the branch was just moved, so the
\* safe strategy finds nothing to refuse.
finishRework(r) ==
    LET mv == SetIndirectBranchToHead(r)
    IN IF mv.err # "none" THEN mv
       ELSE LET co == CheckoutIndirectBranch(mv.repo, FALSE)
            IN IF co.err # "none" THEN co
               ELSE [repo |-> cleanupReworkState(co.repo), err |-> "none"]

\* abortRework: check the branch out, clean up.
abortRework(r, refused) ==
    LET co == CheckoutIndirectBranch(r, refused)
    IN IF co.err # "none" THEN co
       ELSE [repo |-> cleanupReworkState(co.repo), err |-> "none"]

\* A comparison of the commits rather than of their trees.
CompareCommitToHead(r) == r.branches[r.reworkBranch[1]] = HeadCommit(r)

\* Repo.CompareTreeToHead("rework/branch").
CompareTreeToHead(r) == Tree(r.branches[r.reworkBranch[1]]) = Tree(HeadCommit(r))

\* The Validate operation.
validateOp(r) ==
    IF r.reworkBranch = <<>> THEN [repo |-> r, err |-> "BackingStore"]
    ELSE IF ~CompareTreeToHead(r) THEN [repo |-> r, err |-> "InvalidRework"]
    ELSE [repo |-> r, err |-> "none"]

\* A commit created on the branch under rework instead of on HEAD.
CommitOnBranch(r, id) ==
    IF r.reworkBranch = <<>> THEN r
    ELSE [r EXCEPT !.branches[r.reworkBranch[1]] = @ \cup {id}]

\* git.Repository.CreateCommit on HEAD: the ref HEAD names moves.
CommitOnHead(r, id) ==
    IF r.head.t = "branch"
    THEN [r EXCEPT !.branches[r.head.name] = @ \cup {id}]
    ELSE [r EXCEPT !.head = Detached(r.head.c \cup {id}, "")]

\* Repo.CherryPickToHead: a pick that leaves conflicts in the index
\* returns ErrUserActionRequired and commits nothing.
CherryPickToHead(r, id, conflicts) ==
    IF ~IsCommitId(id) THEN [repo |-> r, err |-> "BackingStore"]
    ELSE IF conflicts
         THEN [repo |-> [r EXCEPT !.conflict = <<id>>], err |-> "UserActionRequired"]
         ELSE [repo |-> [CommitOnHead(r, id) EXCEPT !.conflict = <<>>], err |-> "none"]

\* Repo.UpdateMetadataForCommit: a metadata commit of the same patchset,
\* with the next version, is created on HEAD.
UpdateMetadataForCommit(r, id) ==
    IF ~IsCommitId(id) THEN [repo |-> r, err |-> "BackingStore"]
    ELSE [repo |-> CommitOnHead(r, id), err |-> "none"]

\* Repo.AddPatchset(patchset.New(name)): a first metadata commit on HEAD.
AddPatchset(r, name) == [repo |-> CommitOnHead(r, name), err |-> "none"]

\* ------------------------------------------------ the nested rework queue

\* A load that puts the items ahead of the executor's queue.
LoadQueuePrepend(queue, q) == q \o queue

\* Executor.LoadQueue: the items are appended to the executor's queue.
LoadQueue(queue, q) == queue \o q

\* Executor.Resumable, for the operations registerOperations registers.
Resumable(op) == op \in {"Rework", "Skip", "Checkout", "CheckoutBase", "Apply"}

\* Steps that update the metadata of every patchset, with or without
\* metadata commit.
ReworkStepsNoCreate(p) ==
    <<Item("UpdateMetadata", <<p.metadata>>)>>
    \o [i \in 1..Len(p.patches) |-> Item("Apply", <<p.patches[i]>>)]
    \o [i \in 1..Len(p.floating) |-> Item("Cherrypick", <<p.floating[i]>>)]

\* The steps reworkPatchset enqueues for a patchset.
ReworkSteps(p) ==
    (IF p.metadata = "" THEN <<Item("CreateMetadata", <<p.name>>)>>
     ELSE <<Item("UpdateMetadata", <<p.metadata>>)>>)
    \o [i \in 1..Len(p.patches) |-> Item("Apply", <<p.patches[i]>>)]
    \o [i \in 1..Len(p.floating) |-> Item("Cherrypick", <<p.floating[i]>>)]

\* The steps applyPatchset enqueues for a patchset.
ApplySteps(p) ==
    <<Item("Apply", <<p.metadata>>)>>
    \o [i \in 1..Len(p.patches) |-> Item("Apply", <<p.patches[i]>>)]

\* A re-entry that also loads the nested current item.
NestedLoadWithCurrent(current, q) == LoadQueue(LoadQueue(<<>>, current), q)

\* What reworkPatchset and applyPatchset load from the nested state files:
\* the nested queue file; the nested current file is read and not loaded.
NestedLoad(current, q) == LoadQueue(<<>>, q)

\* The nested executor's queue: the loaded items, and the patchset's steps
\* when both nested files were empty.
NestedQueue(s, steps) ==
    LET current == ReadCurrentState(s.ncurrent)
        q == ReadState(s.nqueue)
    IN IF Len(q) = 0 /\ Len(current) = 0
       THEN NestedLoad(current, q) \o steps
       ELSE NestedLoad(current, q)

\* One operation of registerReworkOperations; conflicts tells whether a
\* cherry-pick of this step leaves conflicts. An item read back without
\* its argument makes the operation index an empty slice.
NestedApply(r, item, conflicts) ==
    IF item.op \notin {"Apply", "Cherrypick", "UpdateMetadata", "CreateMetadata"}
    THEN [repo |-> r, err |-> "InvalidOperation"]
    ELSE IF item.args = <<>> THEN [repo |-> r, err |-> "Panic"]
    ELSE CASE item.op \in {"Apply", "Cherrypick"} ->
                  CherryPickToHead(r, item.args[1], conflicts)
           [] item.op = "UpdateMetadata" -> UpdateMetadataForCommit(r, item.args[1])
           [] item.op = "CreateMetadata" -> AddPatchset(r, item.args[1])

\* Command.ExecuteAll of the nested command: every step writes the nested
\* current file, runs, and clears the file when it succeeded; the first
\* error stops the loop. conflictAt is the number of the step whose pick
\* conflicts (0: none); log collects the steps attempted.
RECURSIVE NestedExecuteAll(_, _, _, _, _)
NestedExecuteAll(r, ncurrent, q, conflictAt, log) ==
    IF q = <<>>
    THEN [repo |-> r, ncurrent |-> ncurrent, queue |-> q, err |-> "none", nlog |-> log]
    ELSE LET item == Head(q)
             written == WriteCurrentState(ncurrent, item)
             res == NestedApply(r, item, conflictAt = Len(log) + 1)
         IN IF res.err = "none"
            THEN NestedExecuteAll(res.repo, ClearedFile, Tail(q), conflictAt,
                                  Append(log, item))
            ELSE [repo |-> res.repo, ncurrent |-> written, queue |-> Tail(q),
                  err |-> res.err, nlog |-> Append(log, item)]

\* The body shared by reworkPatchset and applyPatchset: run the nested
\* queue; on an error save what is left of it, on success save nothing.
RunNested(r, s, steps, conflictAt) ==
    LET res == NestedExecuteAll(r, s.ncurrent, NestedQueue(s, steps), conflictAt, <<>>)
    IN [repo |-> res.repo,
        state |-> [s EXCEPT !.ncurrent = res.ncurrent,
                            !.nqueue = IF res.err # "none"
                                       THEN WriteQueueState(res.queue) ELSE @],
        err |-> res.err, nlog |-> res.nlog]

\* reworkPatchset.
reworkPatchset(r, s, slice, name, conflictAt) ==
    LET found == PatchsetMap(slice, name)
    IN IF found = <<>> THEN [repo |-> r, state |-> s, err |-> "NotFound", nlog |-> <<>>]
       ELSE RunNested(r, s, ReworkSteps(found[1]), conflictAt)

\* applyPatchset.
applyPatchset(r, s, slice, name, conflictAt) ==
    LET found == PatchsetMap(slice, name)
    IN IF found = <<>> THEN [repo |-> r, state |-> s, err |-> "NotFound", nlog |-> <<>>]
       ELSE RunNested(r, s, ApplySteps(found[1]), conflictAt)

\* skipReworkQueue: both nested state files are removed.
skipReworkQueue(s) == [s EXCEPT !.nqueue = ClearedFile, !.ncurrent = ClearedFile]

\* The nested executor's queue an operation of the outer queue would run:
\* empty for the operations that run none.
NestedQueueOf(s, slice, item) ==
    IF item.op \in {"Rework", "Apply"} /\ item.args # <<>>
            /\ PatchsetMap(slice, item.args[1]) # <<>>
    THEN LET p == PatchsetMap(slice, item.args[1])[1]
         IN NestedQueue(s, IF item.op = "Rework" THEN ReworkSteps(p) ELSE ApplySteps(p))
    ELSE <<>>

\* The numbers a step of the outer queue can take as its outcome: for the
\* operations that check a tree out, 0 (done) or 1 (refused); for Rework
\* and Apply, 0 or the number of the nested step whose pick conflicts.
Outcomes(s, slice, item) ==
    IF item.op \in {"Checkout", "CheckoutBase", "Abort"} THEN {0, 1}
    ELSE LET nq == NestedQueueOf(s, slice, item)
         IN {0} \cup {k \in 1..Len(nq) : nq[k].op \in {"Apply", "Cherrypick"}}

\* Executor.apply for the operations of registerOperations.
ApplyOperation(r, s, slice, item, outcome) ==
    LET Plain(res) == [repo |-> res.repo, state |-> s, err |-> res.err, nlog |-> <<>>]
        NoArgs == [repo |-> r, state |-> s, err |-> "NoPatchset", nlog |-> <<>>]
    IN CASE item.op = "Begin" -> Plain(startNewRework(r))
         [] item.op = "UpdateHead" -> Plain(updateHead(r))
         [] item.op = "Validate" -> Plain(validateOp(r))
         [] item.op = "Finish" -> Plain(finishRework(r))
         [] item.op = "Abort" -> Plain(abortRework(r, outcome = 1))
         [] item.op = "CheckoutBase" -> Plain(CheckoutBase(r, outcome = 1))
         [] item.op = "Checkout" ->
              IF item.args = <<>> THEN NoArgs
              ELSE Plain(CheckoutPatchset(r, slice, item.args[1], outcome = 1))
         [] item.op = "Rework" ->
              IF item.args = <<>> THEN NoArgs
              ELSE reworkPatchset(r, s, slice, item.args[1], outcome)
         [] item.op = "Apply" ->
              IF item.args = <<>> THEN NoArgs
              ELSE applyPatchset(r, s, slice, item.args[1], outcome)
         [] item.op = "Skip" ->
              [repo |-> r, state |-> skipReworkQueue(s), err |-> "none", nlog |-> <<>>]
         [] OTHER ->
              [repo |-> r, state |-> s, err |-> "InvalidOperation", nlog |-> <<>>]

\* ------------------------------------------------------------ the commands

IdleProc == [pc |-> "idle", cmd |-> "", auto |-> FALSE, queue |-> <<>>, writer |-> FALSE]

\* rewritten: a Finish has moved the branch, which no longer holds History.
InitialRepo ==
    [head |-> OnBranch("main"), branches |-> [b \in {"main"} |-> TipCommit],
     reworkHead |-> <<>>, reworkBranch |-> <<>>, conflict |-> <<>>,
     rewritten |-> FALSE]

NoFiles == [queue |-> <<>>, current |-> <<>>, nqueue |-> <<>>, ncurrent |-> <<>>]

\* The history kept for the properties:
\*   commands       the number of commands built so far;
\*   cmd, refused   the last command that was built, and the error of the
\*                  last one that was refused ("" when it was built);
\*   start          the items the current file and the queue file held when
\*                  it was built;
\*   loaded         the executor's queue as the constructor left it;
\*   attempts       the operations it has attempted, each with its error,
\*                  the nested steps it attempted (nlog) and the nested
\*                  steps that were behind the last of them (nrest);
\*   exit           "running", "saved", "failed" or "crashed";
\*   result         the error Execute or ExecuteAll returned to the driver;
\*   pending        the operations of the rework not yet completed;
\*   uarStop        set by a Save that follows ErrUserActionRequired: the
\*                  operation that failed, the nested step that failed and
\*                  the nested steps that were left;
\*   prevStop       the uarStop of the command before this one.
NoHistory ==
    [commands |-> 0, cmd |-> "", refused |-> "",
     start |-> [current |-> <<>>, queue |-> <<>>], loaded |-> <<>>, attempts |-> <<>>, exit |-> "", result |-> "", pending |-> <<>>,
     uarStop |-> <<>>, prevStop |-> <<>>]

Init ==
    /\ cache = MainCache
    /\ deps = MainDeps
    /\ selectors = <<>>
    /\ built = [done |-> FALSE, inProgress |-> FALSE, revDeps |-> <<>>, queue |-> <<>>]
    /\ reverseDependencies = NoIndex
    /\ input = <<>>
    /\ output = <<>>
    /\ repo = InitialRepo
    /\ state = NoFiles
    /\ proc = IdleProc
    /\ hist = NoHistory

\* pending once item is completed or dropped.
Without(pending, item) ==
    IF pending # <<>> /\ Head(pending) = item THEN Tail(pending) ELSE pending

\* A constructor returned a command: the driver goes on to execute it.
Start(cmd, auto, q, writer, files, pending) ==
    /\ hist.commands < MaxCommands
    /\ proc' = [pc |-> "exec", cmd |-> cmd, auto |-> auto, queue |-> q, writer |-> writer]
    /\ state' = files
    /\ hist' = [hist EXCEPT !.commands = @ + 1, !.cmd = cmd, !.refused = "",
                            !.start = [current |-> ReadCurrentState(state.current),
                                       queue |-> ReadState(state.queue)],
                            !.loaded = q, !.attempts = <<>>,
                            !.exit = "running", !.result = "", !.pending = pending,
                            !.prevStop = hist.uarStop, !.uarStop = <<>>]
    /\ UNCHANGED repo
    /\ UNCHANGED beginVars

\* A constructor returned an error: the driver exits.
Refuse(err) ==
    /\ hist' = [hist EXCEPT !.refused = err]
    /\ UNCHANGED <<repo, state, proc>>
    /\ UNCHANGED beginVars

\* A Begin that is refused on the wrong side of the test.
BeginRefusedInverted(inProgress, q) == ~inProgress /\ Len(q) > 0

\* NewBeginCommand's refusal: a rework is in progress and the queue file
\* holds items.
BeginRefused(inProgress, q) == inProgress /\ Len(q) > 0

\* kilt rework --begin [--all | --patchset name] [--auto].
BeginCmd(sels, auto) ==
    /\ proc.pc = "idle"
    /\ OpenOK(repo)
    /\ ~repo.rewritten
    /\ LET inProgress == ReworkInProgress(repo)
           q == NewBeginQueue(cache, deps, sels, inProgress)
       IN IF BeginRefused(inProgress, ReadState(state.queue))
          THEN Refuse("AlreadyInProgress")
          ELSE Start("begin", auto, q, TRUE, state, q)

\* continueRework: the current item is loaded, then the saved queue.
continueRework(s) ==
    LoadQueue(LoadQueue(<<>>, ReadCurrentState(s.current)), ReadState(s.queue))

\* kilt rework --continue [--auto].
ContinueCmd(auto) ==
    /\ proc.pc = "idle"
    /\ OpenOK(repo)
    /\ IF ~ReworkInProgress(repo) THEN Refuse("NotInProgress")
       ELSE Start("continue", auto, continueRework(state), TRUE, state, hist.pending)

\* A skip that pops the saved queue whatever the current file holds.
NewSkipQueueAlwaysPop(current, q) ==
    LoadQueue(Enqueue(<<>>, "Skip", <<>>), IF Len(q) = 0 THEN q ELSE Tail(q))

\* NewSkipCommand's queue: Skip, then the saved queue, popped when there is
\* no current item.
NewSkipQueue(current, q) ==
    LoadQueue(Enqueue(<<>>, "Skip", <<>>), IF Len(current) = 0 THEN Tail(q) ELSE q)

\* The skip command: NewSkipCommand, driven like the other commands.
SkipCmd(auto) ==
    /\ proc.pc = "idle"
    /\ OpenOK(repo)
    /\ LET q == ReadState(state.queue)
           current == ReadCurrentState(state.current)
       IN IF ~ReworkInProgress(repo) THEN Refuse("NotInProgress")
          ELSE IF Len(current) = 0 /\ Len(q) = 0 THEN Refuse("Empty")
          ELSE Start("skip", auto, NewSkipQueue(current, q), TRUE,
                     [state EXCEPT !.current = IF Len(current) = 0 THEN @
                                               ELSE ClearedFile],
                     Without(hist.pending, Head(current \o q)))

\* kilt rework --finish [--force]: Validate unless forced, then Finish;
\* the command has no state file, and the driver runs it to the end.
FinishCmd(force) ==
    /\ proc.pc = "idle"
    /\ OpenOK(repo)
    /\ IF ~ReworkInProgress(repo) THEN Refuse("NotInProgress")
       ELSE Start("finish", TRUE,
                  Enqueue(IF force THEN <<>> ELSE Enqueue(<<>>, "Validate", <<>>),
                          "Finish", <<>>),
                  FALSE, state, hist.pending)

\* kilt rework --abort: the command writes the queue state file.
AbortCmd(auto) ==
    /\ proc.pc = "idle"
    /\ OpenOK(repo)
    /\ IF ~ReworkInProgress(repo) THEN Refuse("NotInProgress")
       ELSE Start("abort", auto, Enqueue(<<>>, "Abort", <<>>), TRUE, state, hist.pending)

\* kilt rework --validate.
ValidateCmd(auto) ==
    /\ proc.pc = "idle"
    /\ OpenOK(repo)
    /\ IF ~ReworkInProgress(repo) THEN Refuse("NotInProgress")
       ELSE Start("validate", auto, Enqueue(<<>>, "Validate", <<>>), FALSE, state,
                  hist.pending)

\* -------------------------------------------------- executing and saving

\* Command.Execute, once, as the driver calls it (runRework: ExecuteAll
\* with --auto, Execute without): a resumable operation is written to the
\* current file, the operation is popped and run, and the current file is
\* cleared when it succeeded. An empty queue ends the execution.
Execute(outcome) ==
    /\ proc.pc = "exec"
    /\ UNCHANGED beginVars
    /\ IF proc.queue = <<>>
       THEN /\ outcome = 0
            /\ proc' = [proc EXCEPT !.pc = "save"]
            /\ hist' = [hist EXCEPT !.result = IF proc.auto THEN "none"
                                                ELSE Pop(proc.queue).err]
            /\ UNCHANGED <<repo, state>>
       ELSE LET peek == Head(proc.queue)
                item == Pop(proc.queue).item
                written == IF Resumable(peek.op) /\ proc.writer
                           THEN [state EXCEPT !.current = WriteCurrentState(@, peek)]
                           ELSE state
                nq == NestedQueueOf(written, cache, item)
                res == ApplyOperation(repo, written, cache, item, outcome)
            IN /\ outcome \in Outcomes(written, cache, item)
               /\ repo' = res.repo
               /\ state' = IF res.err = "none" /\ proc.writer
                           THEN [res.state EXCEPT !.current = ClearedFile]
                           ELSE res.state
               /\ proc' = [proc EXCEPT !.queue = Pop(@).queue,
                                       !.pc = IF res.err = "none" /\ proc.auto
                                              THEN "exec" ELSE "save"]
               /\ hist' = [hist EXCEPT
                     !.attempts = Append(@, [item |-> item, err |-> res.err,
                                             nlog |-> res.nlog,
                                             nrest |-> SubSeq(nq, Len(res.nlog) + 1, Len(nq))]),
                     !.result = IF res.err = "none" /\ proc.auto THEN @ ELSE res.err,
                     !.pending = IF res.err = "none" THEN Without(@, item) ELSE @]

\* Command.Save at the end of the driver: the executor's queue replaces
\* the queue file; a command without state file writes nothing.
Save ==
    /\ proc.pc = "save"
    /\ state' = IF proc.writer THEN [state EXCEPT !.queue = WriteQueueState(proc.queue)]
                ELSE state
    /\ proc' = IdleProc
    /\ hist' = [hist EXCEPT
          !.exit = "saved",
          !.uarStop = IF hist.attempts # <<>>
                         /\ hist.attempts[Len(hist.attempts)].err = "UserActionRequired"
                      THEN <<hist.attempts[Len(hist.attempts)]>> ELSE <<>>]
    /\ UNCHANGED repo
    /\ UNCHANGED beginVars

\* The process is killed between two operations, or before Save.
Crash ==
    /\ proc.pc \in {"exec", "save"}
    /\ proc' = IdleProc
    /\ hist' = [hist EXCEPT !.exit = "crashed"]
    /\ UNCHANGED <<repo, state>>
    /\ UNCHANGED beginVars

\* The process is killed inside a resumable operation, after the current
\* file was written and before the operation changed anything.
CrashInOperation ==
    /\ proc.pc = "exec"
    /\ proc.queue # <<>>
    /\ Resumable(Head(proc.queue).op)
    /\ proc.writer
    /\ state' = [state EXCEPT !.current = WriteCurrentState(@, Head(proc.queue))]
    /\ proc' = IdleProc
    /\ hist' = [hist EXCEPT !.exit = "crashed"]
    /\ UNCHANGED repo
    /\ UNCHANGED beginVars

\* The process is killed inside startNewRework, between WriteRefHead and
\* WriteSymbolicRefHead.
CrashInBegin ==
    /\ proc.pc = "exec"
    /\ proc.queue # <<>>
    /\ Head(proc.queue).op = "Begin"
    /\ repo' = WriteRefHead(repo)
    /\ proc' = IdleProc
    /\ hist' = [hist EXCEPT !.exit = "crashed"]
    /\ UNCHANGED state
    /\ UNCHANGED beginVars

\* Between two commands the user commits the resolution of the conflict a
\* cherry-pick left.
UserResolve ==
    /\ proc.pc = "idle"
    /\ repo.conflict # <<>>
    /\ repo' = [CommitOnHead(repo, repo.conflict[1]) EXCEPT !.conflict = <<>>]
    /\ UNCHANGED <<state, proc, hist>>
    /\ UNCHANGED beginVars

\* ... or gives the pick up.
UserDiscard ==
    /\ proc.pc = "idle"
    /\ repo.conflict # <<>>
    /\ repo' = [repo EXCEPT !.conflict = <<>>]
    /\ UNCHANGED <<state, proc, hist>>
    /\ UNCHANGED beginVars

\* ... or commits a change of their own on the detached HEAD.
UserEdit ==
    /\ proc.pc = "idle"
    /\ ReworkInProgress(repo)
    /\ repo.head.t = "detached"
    /\ "edit" \notin HeadCommit(repo)
    /\ repo' = CommitOnHead(repo, "edit")
    /\ UNCHANGED <<state, proc, hist>>
    /\ UNCHANGED beginVars

Next ==
    \/ \E sels \in MainSelectors, auto \in BOOLEAN : BeginCmd(sels, auto)
    \/ \E auto \in BOOLEAN : ContinueCmd(auto)
    \/ \E auto \in BOOLEAN : SkipCmd(auto)
    \/ \E force \in BOOLEAN : FinishCmd(force)
    \/ \E auto \in BOOLEAN : AbortCmd(auto)
    \/ \E auto \in BOOLEAN : ValidateCmd(auto)
    \/ \E outcome \in 0..Len(History) : Execute(outcome)
    \/ Save
    \/ Crash
    \/ CrashInOperation
    \/ CrashInBegin
    \/ UserResolve
    \/ UserDiscard
    \/ UserEdit

Spec == Init /\ [][Next]_vars

\* Reworks that are begun and continued by a process that is not killed:
\* an operation that was started returns (Command.Execute is taken again as
\* long as ExecuteAll's loop or the driver calls it), and the driver then
\* saves.
SpecFair ==
    /\ Init
    /\ [][\/ \E sels \in MainSelectors, auto \in BOOLEAN : BeginCmd(sels, auto)
          \/ ContinueCmd(TRUE)
          \/ \E outcome \in 0..Len(History) : Execute(outcome)
          \/ Save
          \/ UserResolve]_vars
    /\ WF_vars(\E outcome \in 0..Len(History) : Execute(outcome))
    /\ WF_vars(Save)

\* ------------------------------------------------ claims about the commands

\* What the next invocation finds pending: the current file's item, then
\* the queue file's items.
SavedPending == ReadCurrentState(state.current) \o ReadState(state.queue)

\* C1: whenever a begin, continue or skip command has exited, by Save, by
\* an error or by a crash at any point, the current file's item followed by
\* the queue file's items are exactly the operations of the rework not yet
\* completed, in their order.
C1_SavedIsPending ==
    (proc.pc = "idle" /\ hist.cmd \in {"begin", "continue", "skip"})
        => SavedPending = hist.pending

\* The operations a command has attempted, without their errors.
Attempted == [k \in 1..Len(hist.attempts) |-> hist.attempts[k].item]

\* The operations a command has completed.
Completed ==
    LET done == SelectSeq(hist.attempts, LAMBDA a : a.err = "none")
    IN [k \in 1..Len(done) |-> done[k].item]

\* C2: when a resumable operation of the outer queue fails with
\* ErrUserActionRequired and the command saves its state, the current file
\* holds that operation with its arguments, and the next continue loads
\* and attempts it first, with the same arguments.
C2_StopIsResumedFirst ==
    /\ (proc.pc = "idle" /\ hist.uarStop # <<>>)
           => ReadCurrentState(state.current) = <<hist.uarStop[1].item>>
    /\ (hist.cmd = "continue" /\ hist.prevStop # <<>>)
           => /\ hist.loaded # <<>>
              /\ Head(hist.loaded) = hist.prevStop[1].item
              /\ hist.attempts # <<>> => hist.attempts[1].item = hist.prevStop[1].item

\* A Rework that stopped on a conflict is attempted again by the continue
\* that follows.
C2_Witness ==
    /\ hist.cmd = "continue"
    /\ hist.prevStop # <<>>
    /\ hist.prevStop[1].item.op = "Rework"
    /\ hist.attempts # <<>>
    /\ hist.attempts[1].item = hist.prevStop[1].item

\* A continue has attempted again, as its first operation, the Rework or
\* Apply the command before it stopped on.
Resumed ==
    /\ hist.cmd = "continue"
    /\ hist.prevStop # <<>>
    /\ hist.attempts # <<>>
    /\ hist.attempts[1].item = hist.prevStop[1].item

\* The nested step the stop failed on, and the steps that had succeeded.
FailedStep == hist.prevStop[1].nlog[Len(hist.prevStop[1].nlog)]
SucceededSteps ==
    {hist.prevStop[1].nlog[k] : k \in 1..(Len(hist.prevStop[1].nlog) - 1)}

\* C3 as stated: after a nested step failed with ErrUserActionRequired, the
\* steps attempted on re-entry are the failed step followed by the steps
\* that remained, in order, and no step that had succeeded is repeated.
C3_ResumeFromFailedStep ==
    Resumed =>
        LET again == hist.attempts[1]
            expected == <<FailedStep>> \o hist.prevStop[1].nrest
        IN /\ again.nlog # <<>>
           /\ IsPrefix(again.nlog, expected)
           /\ again.err = "none" => again.nlog = expected
           /\ Range(again.nlog) \cap SucceededSteps = {}

\* C3, amended: the steps attempted on re-entry are the steps that were
\* behind the failed one, in order (all of them unless one fails); the
\* failed step itself is not attempted again, and no step that had
\* succeeded is repeated.
C3_ResumeAfterFailedStep ==
    Resumed =>
        LET again == hist.attempts[1]
        IN /\ IsPrefix(again.nlog, hist.prevStop[1].nrest)
           /\ again.err = "none" => again.nlog = hist.prevStop[1].nrest
           /\ FailedStep \notin Range(again.nlog)
           /\ Range(again.nlog) \cap SucceededSteps = {}

\* Rework bar stopped on the conflict of its second step of three; the
\* continue re-entered it and ran the third.
C3_Witness ==
    /\ Resumed
    /\ hist.prevStop[1].item = Item("Rework", <<"bar">>)
    /\ Len(hist.prevStop[1].nlog) = 2
    /\ hist.prevStop[1].nrest # <<>>
    /\ hist.attempts[1].nlog = hist.prevStop[1].nrest
    /\ hist.attempts[1].err = "none"

\* C4: continue loads the current item and then the queue file's items in
\* file order; the operations run in that order; none runs after one that
\* failed; and with --auto the run ends only drained or on an error.
C4_ContinueOrder ==
    hist.cmd = "continue" =>
        /\ hist.loaded = hist.start.current \o hist.start.queue
        /\ IsPrefix(Attempted, hist.loaded)
        /\ \A k \in 1..(Len(hist.attempts) - 1) : hist.attempts[k].err = "none"
        /\ (proc.pc = "save" /\ proc.auto)
               => \/ Attempted = hist.loaded
                  \/ /\ hist.attempts # <<>>
                     /\ hist.attempts[Len(hist.attempts)].err # "none"

\* A continue --auto that found a current item and a saved queue has run
\* two operations and stopped on the error of the third.
C4_Witness ==
    /\ hist.cmd = "continue"
    /\ proc.pc = "save"
    /\ proc.auto
    /\ hist.start.current # <<>>
    /\ Len(hist.start.queue) > 2
    /\ Len(hist.attempts) = 3
    /\ hist.attempts[3].err # "none"
    /\ proc.queue # <<>>

\* C5: skip drops exactly one pending operation, the current item when
\* there is one (the queue file then stays as it is) and else the head of
\* the queue file; the dropped operation is not run; every other pending
\* operation is run in its order or stays pending in its order.
C5_SkipDropsOne ==
    hist.cmd = "skip" =>
        LET before == hist.start.current \o hist.start.queue
        IN /\ before # <<>>
           /\ hist.loaded = <<Item("Skip", <<>>)>> \o Tail(before)
           /\ IsPrefix(Attempted, hist.loaded)
           /\ (hist.start.current # <<>> /\ proc.pc = "exec" /\ hist.attempts = <<>>)
                  => /\ ReadState(state.queue) = hist.start.queue
                     /\ ReadCurrentState(state.current) = <<>>
           /\ (proc.pc = "idle" /\ hist.exit = "saved")
                  => /\ hist.attempts # <<>>
                     /\ Tail(Completed) \o SavedPending = Tail(before)

\* A skip that found a current item has dropped it, run Skip, and saved
\* the queue file's items, which are all still pending.
C5_Witness ==
    /\ hist.cmd = "skip"
    /\ proc.pc = "idle"
    /\ hist.exit = "saved"
    /\ hist.start.current # <<>>
    /\ Len(hist.start.queue) > 1
    /\ Attempted = <<Item("Skip", <<>>)>>
    /\ SavedPending = hist.start.queue

\* The step is a begin command, built or refused.
BeginStep == \E sels \in MainSelectors, auto \in BOOLEAN : BeginCmd(sels, auto)

\* C6: whenever a rework is in progress and the queue file holds items,
\* Begin fails with the already-in-progress error and changes no ref, no
\* HEAD and no state file.
C6_BeginRefusedInProgress ==
    [][(proc.pc = "idle" /\ ReworkInProgress(repo) /\ ReadState(state.queue) # <<>>
            /\ BeginStep)
           => /\ hist'.refused = "AlreadyInProgress"
              /\ UNCHANGED <<repo, state, proc>>]_vars

\* A begin was refused while a rework with a saved queue was in progress.
C6_Witness ==
    /\ proc.pc = "idle"
    /\ hist.refused = "AlreadyInProgress"
    /\ ReworkInProgress(repo)
    /\ ReadState(state.queue) # <<>>

\* The step ran the operation op of the outer queue, with error err.
Ran(op, err) ==
    /\ Len(hist'.attempts) = Len(hist.attempts) + 1
    /\ hist'.attempts[Len(hist'.attempts)].item.op = op
    /\ hist'.attempts[Len(hist'.attempts)].err = err

\* C9: when the Begin operation succeeds with no rework in progress,
\* rework/head points at the commit HEAD was on, rework/branch names the
\* branch that was checked out, HEAD has been set through rework/head, and
\* the rework is in progress.
C9_BeginEffects ==
    [][(Ran("Begin", "none") /\ ~ReworkInProgress(repo))
           => /\ repo.head.t = "branch"
              /\ repo'.reworkHead = <<HeadCommit(repo)>>
              /\ repo'.reworkBranch = <<repo.head.name>>
              /\ repo'.head = Detached(HeadCommit(repo), "rework/head")
              /\ ReworkInProgress(repo')]_vars

\* The Begin operation has just run.
C9_Witness ==
    /\ proc.pc = "save"
    /\ hist.cmd = "begin"
    /\ Len(hist.attempts) = 1
    /\ hist.attempts[1].item.op = "Begin"
    /\ hist.attempts[1].err = "none"
    /\ repo.reworkBranch = <<"main">>
    /\ repo.head.via = "rework/head"

\* C10: finish is refused when no rework is in progress; without force
\* Validate runs first, and when it reports an invalid rework Finish is not
\* run and the branch, the refs and HEAD stay as they were; when Validate
\* passes or force is given, Finish moves the branch rework/branch names to
\* HEAD's commit, checks that branch out and deletes both rework refs.
C10_Finish ==
    [][/\ (\E force \in BOOLEAN : FinishCmd(force) /\ ~ReworkInProgress(repo))
              => /\ hist'.refused = "NotInProgress"
                 /\ UNCHANGED <<repo, state, proc>>
       /\ \A force \in BOOLEAN :
              (FinishCmd(force) /\ ReworkInProgress(repo))
                  => proc'.queue = IF force THEN <<Item("Finish", <<>>)>>
                                   ELSE <<Item("Validate", <<>>), Item("Finish", <<>>)>>
       /\ (hist.cmd = "finish" /\ proc.pc # "idle"
               /\ ~Ran("Finish", "none") /\ ~Ran("Finish", "BackingStore"))
              => UNCHANGED <<repo, state>>
       /\ (hist.cmd = "finish" /\ Ran("Validate", "InvalidRework"))
              => /\ proc'.pc = "save"
                 /\ proc'.queue = <<Item("Finish", <<>>)>>
       /\ (Ran("Finish", "none") \/ Ran("Finish", "BackingStore"))
              => /\ hist.cmd = "finish"
                 /\ \/ hist.loaded = <<Item("Finish", <<>>)>>
                    \/ /\ Len(hist.attempts) = 1
                       /\ hist.attempts[1].item.op = "Validate"
                       /\ hist.attempts[1].err = "none"
                 /\ Ran("Finish", "none")
                 /\ repo.reworkBranch # <<>>
                 /\ repo'.branches[repo.reworkBranch[1]] = HeadCommit(repo)
                 /\ repo'.head = OnBranch(repo.reworkBranch[1])
                 /\ repo'.reworkBranch = <<>>
                 /\ repo'.reworkHead = <<>>
                 /\ ~ReworkInProgress(repo')]_vars

\* A finish without force has validated a complete rework and finished it:
\* the branch is checked out at the reworked commit and the refs are gone.
C10_Witness ==
    /\ hist.cmd = "finish"
    /\ Len(hist.attempts) = 2
    /\ hist.attempts[1].item.op = "Validate"
    /\ hist.attempts[2].item.op = "Finish"
    /\ hist.attempts[2].err = "none"
    /\ repo.head = OnBranch("main")
    /\ repo.rewritten
    /\ ~ReworkInProgress(repo)

\* C11: from every state in which a rework is in progress the Abort
\* operation checks out the branch rework/branch names and deletes both
\* rework refs, so that no rework is in progress afterwards; when no
\* rework is in progress the abort command fails and changes nothing.
C11_Abort ==
    [][/\ (\E auto \in BOOLEAN : AbortCmd(auto) /\ ~ReworkInProgress(repo))
              => /\ hist'.refused = "NotInProgress"
                 /\ UNCHANGED <<repo, state, proc>>
       /\ (\E err \in {"none", "BackingStore"} : Ran("Abort", err))
              => /\ ReworkInProgress(repo)
                 /\ repo'.head = OnBranch(repo.reworkBranch[1])
                 /\ repo'.reworkBranch = <<>>
                 /\ repo'.reworkHead = <<>>
                 /\ ~ReworkInProgress(repo')]_vars

\* C12: the validate command is refused when no rework is in progress; the
\* Validate operation succeeds exactly when the tree of the commit
\* rework/branch resolves to equals the tree at HEAD, and returns
\* InvalidRework otherwise; in every case no ref, HEAD or state file changes.
C12_Validate ==
    [][/\ (\E auto \in BOOLEAN : ValidateCmd(auto) /\ ~ReworkInProgress(repo))
              => /\ hist'.refused = "NotInProgress"
                 /\ UNCHANGED <<repo, state, proc>>
       /\ \A err \in {"none", "InvalidRework", "BackingStore"} :
              Ran("Validate", err)
                  => /\ ReworkInProgress(repo)
                     /\ err \in {"none", "InvalidRework"}
                     /\ (err = "none")
                            <=> (Tree(repo.branches[repo.reworkBranch[1]])
                                     = Tree(HeadCommit(repo)))
                     /\ UNCHANGED <<repo, state>>
       /\ (hist.cmd = "validate" /\ proc.pc # "idle")
              => UNCHANGED <<repo, state>>]_vars

\* The validate command has reported a rework whose tree differs from the
\* branch's, and has saved: refs, HEAD and state files are as they were.
C12_Witness ==
    /\ hist.cmd = "validate"
    /\ hist.exit = "saved"
    /\ Len(hist.attempts) = 1
    /\ hist.attempts[1].item.op = "Validate"
    /\ hist.attempts[1].err = "InvalidRework"
    /\ ReworkInProgress(repo)
    /\ ReadState(state.queue) # <<>>

\* C13: while a rework is in progress no step other than a successful
\* Finish changes the commit a branch points to: not Begin, which records
\* that commit in rework/head, not Checkout, CheckoutBase, Rework, Apply,
\* UpdateHead, Skip or Validate, not the nested CreateMetadata,
\* UpdateMetadata, Apply and Cherrypick, which commit on the detached HEAD;
\* and after Abort the branch points to the commit it had before Begin.
C13_BranchUntouched ==
    [][/\ (ReworkInProgress(repo) /\ ~Ran("Finish", "none"))
              => repo'.branches = repo.branches
       /\ Ran("Begin", "none")
              => /\ repo'.branches = repo.branches
                 /\ repo.head.t = "branch"
                 /\ repo'.reworkHead = <<repo.branches[repo.head.name]>>
                 /\ repo.branches[repo.head.name] = TipCommit
       /\ Ran("Abort", "none")
              => /\ repo'.head = OnBranch(repo.reworkBranch[1])
                 /\ repo'.branches[repo.reworkBranch[1]] = TipCommit]_vars

\* An abort has succeeded after a nested queue had committed on HEAD and
\* stopped on a pick: the branch is checked out where it was before Begin.
C13_Witness ==
    /\ hist.cmd = "abort"
    /\ Len(hist.attempts) = 1
    /\ hist.attempts[1].err = "none"
    /\ ReadCurrentState(state.ncurrent) # <<>>
    /\ ReadState(state.nqueue) # <<>>
    /\ repo.head = OnBranch("main")
    /\ repo.branches["main"] = TipCommit
    /\ ~ReworkInProgress(repo)

\* C15: in every reachable state, also after a Begin that failed part-way,
\* a rework is reported in progress exactly when at least one of
\* rework/head and rework/branch exists.
C15_InProgressIffRef ==
    ReworkInProgress(repo) <=> (repo.reworkHead # <<>> \/ repo.reworkBranch # <<>>)

\* The operations the running command has attempted, in order.
AttemptedItems == [i \in 1..Len(hist.attempts) |-> hist.attempts[i].item]

\* C18: the executor is first in, first out. A step of Execute on a queue
\* with items removes the head and applies it, leaving the later items
\* queued in order; on an empty queue it changes nothing, and returns Empty
\* to a driver that called Execute and success to one that called
\* ExecuteAll. ExecuteAll goes on after a success and stops at the first
\* error, which it returns; what was attempted followed by what is queued
\* is always the queue the command started with.
C18_ExecutorFifo ==
    [][(proc.pc = "exec" /\ proc'.pc # "idle")
          => /\ proc.queue = <<>>
                   => /\ UNCHANGED <<repo, state>>
                      /\ proc'.queue = <<>>
                      /\ hist'.attempts = hist.attempts
                      /\ proc'.pc = "save"
                      /\ hist'.result = IF proc.auto THEN "none" ELSE "Empty"
             /\ proc.queue # <<>>
                   => /\ Len(hist'.attempts) = Len(hist.attempts) + 1
                      /\ hist'.attempts[Len(hist'.attempts)].item = Head(proc.queue)
                      /\ proc'.queue = Tail(proc.queue)
                      /\ LET err == hist'.attempts[Len(hist'.attempts)].err
                         IN /\ (err = "none" /\ proc.auto) => proc'.pc = "exec"
                            /\ (err = "none" /\ ~proc.auto)
                                   => proc'.pc = "save" /\ hist'.result = "none"
                            /\ err # "none"
                                   => proc'.pc = "save" /\ hist'.result = err
             /\ hist'.loaded = [i \in 1..Len(hist'.attempts) |->
                                    hist'.attempts[i].item] \o proc'.queue
             /\ \A i \in 1..Len(hist.attempts) : hist.attempts[i].err = "none"]_vars

\* ExecuteAll has run the three operations of a queue in order, the third
\* failed, and the two behind it are still queued.
C18_Witness ==
    /\ proc.pc = "save"
    /\ proc.auto
    /\ Len(hist.attempts) = 3
    /\ hist.attempts[1].err = "none"
    /\ hist.attempts[2].err = "none"
    /\ hist.attempts[3].err = "UserActionRequired"
    /\ hist.result = "UserActionRequired"
    /\ Len(proc.queue) = 2
    /\ hist.loaded = AttemptedItems \o proc.queue

\* The nested current file after the attempt a ran the nested steps a.nlog,
\* which are all resumable: it holds the step that failed.
NestedCurrentHolds(a, ncurrent) ==
    a.nlog # <<>> => ReadCurrentState(ncurrent) = <<a.nlog[Len(a.nlog)]>>

\* C25: for every operation executed by a command that has a state file, a
\* resumable operation is in the current file when it starts and stays there
\* when it fails, a non-resumable operation is never written to the current
\* file, and the current file is empty after any operation succeeded.
C25_CurrentFile ==
    [][(proc.writer /\ Len(hist'.attempts) = Len(hist.attempts) + 1)
          => LET a == hist'.attempts[Len(hist'.attempts)]
             IN IF a.err = "none"
                THEN /\ ReadCurrentState(state'.current) = <<>>
                     /\ a.nlog # <<>> => ReadCurrentState(state'.ncurrent) = <<>>
                ELSE IF Resumable(a.item.op)
                THEN /\ ReadCurrentState(state'.current) = <<a.item>>
                     /\ NestedCurrentHolds(a, state'.ncurrent)
                ELSE state'.current = state.current]_vars

\* A resumable operation failed and the command saved: the operation is in
\* the current file.
C25_Witness ==
    /\ hist.attempts # <<>>
    /\ hist.attempts[Len(hist.attempts)].err = "UserActionRequired"
    /\ Resumable(hist.attempts[Len(hist.attempts)].item.op)
    /\ hist.exit = "saved"
    /\ ReadCurrentState(state.current) = <<hist.attempts[Len(hist.attempts)].item>>

\* C26: whenever a Rework or Apply operation returns success, also when a
\* continue re-entered it after a conflict on its last nested step, both
\* nested state files are empty.
C26_NestedFilesEmpty ==
    [][(Len(hist'.attempts) = Len(hist.attempts) + 1)
          => LET a == hist'.attempts[Len(hist'.attempts)]
             IN (a.item.op \in {"Rework", "Apply"} /\ a.err = "none")
                    => /\ ReadState(state'.nqueue) = <<>>
                       /\ ReadCurrentState(state'.ncurrent) = <<>>]_vars

\* C27: Finish never moves the rework's branch or deletes the rework refs
\* while the queue file or the current file still holds a pending operation.
C27_FinishOnlyDrained ==
    [][(\/ ReadState(state.queue) # <<>>
        \/ ReadCurrentState(state.current) # <<>>)
          => ~(/\ Len(hist'.attempts) = Len(hist.attempts) + 1
               /\ hist'.attempts[Len(hist'.attempts)].item.op = "Finish"
               /\ \/ repo'.branches # repo.branches
                  \/ repo'.reworkBranch # repo.reworkBranch
                  \/ repo'.reworkHead # repo.reworkHead)]_vars

\* C28: after Abort or Finish completed and no rework is in progress, none
\* of the four state files holds an item.
C28_NoLeftOver ==
    (/\ proc.pc = "idle"
     /\ hist.cmd \in {"finish", "abort"}
     /\ hist.exit = "saved"
     /\ ~ReworkInProgress(repo))
        => /\ ReadState(state.queue) = <<>>
           /\ ReadCurrentState(state.current) = <<>>
           /\ ReadState(state.nqueue) = <<>>
           /\ ReadCurrentState(state.ncurrent) = <<>>

\* repo.Open: the kilt branch findKiltBranch finds (the branch HEAD is on,
\* or the branch rework/branch resolves to when HEAD is detached), and the
\* head, refs/kilt/rework/head when checkRework finds rework/branch and the
\* branch otherwise. The base ref of the kilt branch exists since Init.
Open(r) ==
    IF r.head.t # "branch" /\ r.reworkBranch = <<>>
    THEN [err |-> "DetachedHead", branch |-> "", head |-> ""]
    ELSE LET branch == IF r.head.t # "branch" THEN r.reworkBranch[1]
                       ELSE r.head.name
         IN [err |-> "none", branch |-> branch,
             head |-> IF ReworkInProgress(r) THEN "refs/kilt/rework/head"
                      ELSE branch]

C40_Terminates ==
    /\ [][(proc.pc = "exec" /\ proc'.pc # "idle")
             => /\ Len(proc'.queue) <= Len(proc.queue)
                /\ (proc.queue # <<>> => Len(proc'.queue) = Len(proc.queue) - 1)]_vars
    /\ (proc.pc = "exec" /\ proc.cmd = "continue" /\ proc.auto)
          ~> /\ proc.pc = "idle"
             /\ \/ hist.exit = "crashed"
                \/ hist.result # "none"
                \/ /\ ReadState(state.queue) = <<>>
                   /\ ReadCurrentState(state.current) = <<>>

\* A run-all continue that found operations pending, ran them all and left
\* both state files empty.
C40_Witness ==
    /\ proc.pc = "idle" /\ hist.cmd = "continue" /\ hist.exit = "saved"
    /\ hist.result = "none" /\ Len(hist.attempts) >= 2
    /\ ReadState(state.queue) = <<>> /\ ReadCurrentState(state.current) = <<>>

\* ------------------------------------------------------ SpecBegin: inputs

Names == <<"a", "b", "c", "d", "e", "f">>
MetadataNames == <<"ma", "mb", "mc", "md", "me", "mf">>
PatchNames == <<"pa", "pb", "pc", "pd", "pe", "pf">>
FloatingNames == <<"fa", "fb", "fc", "fd", "fe", "ff">>

\* The drawn cache: MaxPatchsets patchsets with metadata commit and one
\* patch each; the patchsets in withFloating also have a floating patch.
DrawnCache(withFloating) ==
    [i \in 1..MaxPatchsets |->
        Patchset(Names[i], i, MetadataNames[i], <<PatchNames[i]>>,
                 IF i \in withFloating THEN <<FloatingNames[i]>> ELSE <<>>)]

\* Every edge of a drawn graph points from a patchset to an earlier one, as
\* StructGraph.Add demands; a patchset's dependencies are listed in cache order.
DrawnGraphs ==
    {[i \in 1..MaxPatchsets |-> SetToSeq({j \in 1..MaxPatchsets : <<i, j>> \in es})] :
        es \in SUBSET {e \in (1..MaxPatchsets) \X (1..MaxPatchsets) : e[2] < e[1]}}

DrawnSelectors ==
    {base \o [k \in 1..Len(ns) |-> PatchsetTarget(Names[ns[k]])] :
        base \in {<<>>, <<FloatingTargets>>, <<NoTargets>>,
                  <<FloatingTargets, AllTargets>>},
        ns \in {SetToSeq(S) : S \in {T \in SUBSET (1..MaxPatchsets) :
                                        Cardinality(T) <= MaxNamed}}}

NotBuilt == [done |-> FALSE, inProgress |-> FALSE, revDeps |-> <<>>, queue |-> <<>>]

InitBegin ==
    /\ \E fl \in {{}} \cup {{k} : k \in 1..MaxPatchsets} : cache = DrawnCache(fl)
    /\ deps \in DrawnGraphs
    /\ selectors \in DrawnSelectors
    /\ built = NotBuilt
    /\ reverseDependencies = NoIndex
    /\ input = <<>>
    /\ output = <<>>
    /\ repo = InitialRepo
    /\ state = NoFiles
    /\ proc = IdleProc
    /\ hist = NoHistory

\* NewBeginCommand on the drawn inputs, with or without a rework in
\* progress (and then with an empty queue file).
BuildBegin(inProgress) ==
    /\ ~built.done
    /\ built' = [done |-> TRUE, inProgress |-> inProgress,
                 revDeps |-> selectRevDepPatchsets(cache, deps, selectors),
                 queue |-> NewBeginQueue(cache, deps, selectors, inProgress)]
    /\ UNCHANGED <<cache, deps, reverseDependencies, selectors, input, output>>
    /\ UNCHANGED runVars

NextBegin == \E inProgress \in BOOLEAN : BuildBegin(inProgress)

SpecBegin == InitBegin /\ [][NextBegin]_vars

\* ------------------------------------------------- claims about Begin's queue

\* The patchsets some selector of the drawn list matches.
Matched == {p \in Range(cache) : selectPatchset(selectors, p)}

\* The patchsets that depend, directly or through others, on one of S: the
\* least set closed under "depends on a member or on a patchset of S".
RECURSIVE RevClosure(_, _)
RevClosure(S, acc) ==
    LET more == {p \in Range(cache) :
                    \E q \in S \cup acc : q.uuid \in Range(deps[p.uuid])}
    IN IF more \subseteq acc THEN acc ELSE RevClosure(S, acc \cup more)

IntendedTargets == Matched \cup RevClosure(Matched, {})

\* The queue the documented layout gives for the target set T.
LayoutQueue(T, inProgress) ==
    LET n == Len(cache)
        f == CHOOSE i \in 1..n : cache[i] \in T /\ \A j \in 1..(i - 1) : cache[j] \notin T
    IN (IF inProgress THEN <<>> ELSE <<Item("Begin", <<>>)>>)
       \o <<IF f = 1 THEN Item("CheckoutBase", <<>>)
                     ELSE Item("Checkout", <<cache[f - 1].name>>)>>
       \o [k \in 1..(n - f + 1) |->
              IF cache[f + k - 1] \in T
              THEN Item("Rework", <<cache[f + k - 1].name>>)
              ELSE Item("Apply", <<cache[f + k - 1].name>>)]
       \o <<Item("UpdateHead", <<>>)>>

\* C7: for every non-empty target set the queue Begin builds is Begin (when
\* no rework was in progress), one checkout item for the position before the
\* first target, one item for every patchset from the first target to the
\* tip (Rework for a target, Apply otherwise), then UpdateHead.
C7_BeginQueueLayout ==
    (built.done /\ built.revDeps # <<>>)
        => built.queue = LayoutQueue(Range(built.revDeps), built.inProgress)

\* C8: the target set is the matched patchsets with all their transitive
\* reverse dependencies, each once, in cache order, and every target
\* receives a Rework item and no Apply item.
C8_TargetSet ==
    built.done =>
        /\ Range(built.revDeps) = IntendedTargets
        /\ \A i, j \in 1..Len(built.revDeps) :
               i < j => Index(cache, built.revDeps[i].name)
                            < Index(cache, built.revDeps[j].name)
        /\ \A p \in Range(built.revDeps) :
               /\ Item("Rework", <<p.name>>) \in Range(built.queue)
               /\ Item("Apply", <<p.name>>) \notin Range(built.queue)

\* ------------------------------------------- SpecRun: reworks without edits

\* kilt rework --begin --auto on the drawn cache, graph and selectors with
\* every checkout and every pick succeeding, and kilt rework --validate.
NextRun ==
    \/ BeginCmd(selectors, TRUE)
    \/ Execute(0)
    \/ Save
    \/ ValidateCmd(TRUE)

SpecRun == InitBegin /\ [][NextRun]_vars

\* C14: when a rework that only reapplies existing commits, every pick
\* succeeding and no edit made, has been run until no operation is left,
\* Validate succeeds, whatever the cache, the graph and the selectors the
\* command line gives after FloatingTargets.
C14_NoEditValidates ==
    (/\ selectors # <<>>
     /\ selectors[1] = FloatingTargets
     /\ hist.cmd = "validate"
     /\ hist.pending = <<>>
     /\ hist.start = [current |-> <<>>, queue |-> <<>>]
     /\ Len(hist.attempts) = 1)
        => hist.attempts[1].err = "none"

\* --------------------------------------------- SpecBuild: the build command

\* The revision and branch kilt build --base names.
Base == "base"

\* Repo.CheckoutRev: the revision is resolved and checked out detached.
CheckoutRev(r, rev, refused) ==
    IF rev \notin DOMAIN r.branches THEN [repo |-> r, err |-> "BackingStore"]
    ELSE checkoutRev(r, r.branches[rev], refused)

\* Repo.SetBranchToHead: the named branch is moved to HEAD's commit.
SetBranchToHead(r, branch) ==
    IF branch \notin DOMAIN r.branches THEN [repo |-> r, err |-> "BackingStore"]
    ELSE [repo |-> [r EXCEPT !.branches[branch] = HeadCommit(r), !.rewritten = TRUE],
          err |-> "none"]

\* Repo.CheckoutBranch: the named branch is checked out.
CheckoutBranch(r, branch) ==
    [repo |-> [r EXCEPT !.head = OnBranch(branch), !.conflict = <<>>], err |-> "none"]

\* finishBuild: move the named branch to HEAD, check it out, clean up.
finishBuild(r, branch) ==
    IF ~ReworkInProgress(r) THEN [repo |-> r, err |-> "NotInProgress"]
    ELSE LET mv == SetBranchToHead(r, branch)
         IN IF mv.err # "none" THEN mv
            ELSE LET co == CheckoutBranch(mv.repo, branch)
                 IN [repo |-> cleanupReworkState(co.repo), err |-> "none"]

\* Executor.apply for the operations of registerBuildOperations.
ApplyBuildOperation(r, s, slice, item, outcome) ==
    LET Plain(res) == [repo |-> res.repo, state |-> s, err |-> res.err, nlog |-> <<>>]
        NoArgs == [repo |-> r, state |-> s, err |-> "NoArgument", nlog |-> <<>>]
    IN CASE item.op = "UpdateHead" -> Plain(updateHead(r))
         [] item.op = "Finish" ->
              IF item.args = <<>> THEN NoArgs ELSE Plain(finishBuild(r, item.args[1]))
         [] item.op = "Abort" -> Plain(abortRework(r, outcome = 1))
         [] item.op = "Begin" -> Plain(startNewRework(r))
         [] item.op = "Checkout" ->
              IF item.args = <<>> THEN NoArgs
              ELSE Plain(CheckoutRev(r, item.args[1], outcome = 1))
         [] item.op = "Apply" ->
              IF item.args = <<>> THEN NoArgs
              ELSE applyPatchset(r, s, slice, item.args[1], outcome)
         [] OTHER ->
              [repo |-> r, state |-> s, err |-> "InvalidOperation", nlog |-> <<>>]

\* The repository kilt build runs on: the kilt branch main is checked out
\* and the branch base sits on the base commit.
InitialBuildRepo ==
    [InitialRepo EXCEPT
        !.branches = [b \in {"main", Base} |-> IF b = "main" THEN TipCommit
                                              ELSE BaseCommit]]

\* The selector lists runbuild builds: a PatchsetTarget for each --patchset,
\* and at least one.
BuildSelectors ==
    {[k \in 1..Len(ns) |-> PatchsetTarget(Names[ns[k]])] :
        ns \in {SetToSeq(S) : S \in {T \in SUBSET (1..MaxPatchsets) :
                                        Cardinality(T) \in 1..MaxNamed}}}

InitBuild ==
    /\ \E fl \in {{}} \cup {{k} : k \in 1..MaxPatchsets} : cache = DrawnCache(fl)
    /\ deps \in DrawnGraphs
    /\ selectors \in BuildSelectors
    /\ built = NotBuilt
    /\ reverseDependencies = NoIndex
    /\ input = <<>>
    /\ output = <<>>
    /\ repo = InitialBuildRepo
    /\ state = NoFiles
    /\ proc = IdleProc
    /\ hist = NoHistory

\* kilt build --begin --base base --patchset name ...
BuildCmd ==
    /\ proc.pc = "idle"
    /\ OpenOK(repo)
    /\ ~repo.rewritten
    /\ LET q == NewBeginBuildQueue(cache, deps, Base, selectors)
       IN Start("build", TRUE, q, TRUE, state, q)

\* Command.ExecuteAll as runbuild calls it, one operation at a time: as in
\* Execute, with the operations the command's constructor registered (the
\* build operations for NewBeginBuildCommand, the rework operations for
\* NewContinueCommand); an error sends the driver to log.Exitf, an empty
\* queue to Save.
ExecuteBuild(outcome) ==
    /\ proc.pc = "exec"
    /\ proc.cmd \in {"build", "continue"}
    /\ UNCHANGED beginVars
    /\ IF proc.queue = <<>>
       THEN /\ outcome = 0
            /\ proc' = [proc EXCEPT !.pc = "save"]
            /\ hist' = [hist EXCEPT !.result = IF proc.auto THEN "none"
                                                ELSE Pop(proc.queue).err]
            /\ UNCHANGED <<repo, state>>
       ELSE LET peek == Head(proc.queue)
                item == Pop(proc.queue).item
                written == IF Resumable(peek.op) /\ proc.writer
                           THEN [state EXCEPT !.current = WriteCurrentState(@, peek)]
                           ELSE state
                nq == NestedQueueOf(written, cache, item)
                res == IF proc.cmd = "build"
                       THEN ApplyBuildOperation(repo, written, cache, item, outcome)
                       ELSE ApplyOperation(repo, written, cache, item, outcome)
            IN /\ outcome \in Outcomes(written, cache, item)
               /\ repo' = res.repo
               /\ state' = IF res.err = "none" /\ proc.writer
                           THEN [res.state EXCEPT !.current = ClearedFile]
                           ELSE res.state
               /\ proc' = [proc EXCEPT !.queue = Pop(@).queue,
                                       !.pc = IF res.err = "none" THEN "exec"
                                              ELSE "exit"]
               /\ hist' = [hist EXCEPT
                     !.attempts = Append(@, [item |-> item, err |-> res.err,
                                             nlog |-> res.nlog,
                                             nrest |-> SubSeq(nq, Len(res.nlog) + 1, Len(nq))]),
                     !.result = IF res.err = "none" /\ proc.auto THEN @ ELSE res.err,
                     !.pending = IF res.err = "none" THEN Without(@, item) ELSE @]

\* runbuild after an error of ExecuteAll: log.Exitf ends the process.
ExitBuild ==
    /\ proc.pc = "exit"
    /\ proc' = IdleProc
    /\ hist' = [hist EXCEPT !.exit = "failed"]
    /\ UNCHANGED <<repo, state>>
    /\ UNCHANGED beginVars

NextBuild ==
    \/ BuildCmd
    \/ ContinueCmd(TRUE)
    \/ \E outcome \in 0..Len(History) : ExecuteBuild(outcome)
    \/ ExitBuild
    \/ Save
    \/ UserResolve

SpecBuild == InitBuild /\ [][NextBuild]_vars

\* C16: when an operation of a build command fails, the command has saved,
\* before it exits, the operations that had not completed: the failed
\* resumable operation in the current file, the others in the queue file.
C16_FailureSaves ==
    (hist.cmd = "build" /\ hist.exit = "failed") => SavedPending = hist.pending

\* The patchsets one of S depends on, directly or through others.
RECURSIVE FwdClosure(_, _)
FwdClosure(S, acc) ==
    LET more == {p \in Range(cache) :
                    \E q \in S \cup acc : p.uuid \in Range(deps[q.uuid])}
    IN IF more \subseteq acc THEN acc ELSE FwdClosure(S, acc \cup more)

\* The queue the documented layout of a build gives.
BuildLayoutQueue ==
    LET T == Matched \cup FwdClosure(Matched, {})
        selected == SelectSeq(cache, LAMBDA p : p \in T)
    IN <<Item("Begin", <<>>), Item("Checkout", <<Base>>)>>
       \o [k \in 1..Len(selected) |-> Item("Apply", <<selected[k].name>>)]
       \o <<Item("UpdateHead", <<>>), Item("Finish", <<Base>>)>>

\* C17: the queue of a build is Begin, Checkout base once, an Apply for
\* every selected patchset and every one of its transitive dependencies,
\* once each and in cache order, then UpdateHead, then Finish.
C17_BuildLayout ==
    (hist.cmd = "build") => hist.loaded = BuildLayoutQueue

\* The repository a build leaves when none of its operations fails.
RECURSIVE RunBuild(_, _, _)
RunBuild(r, s, q) ==
    IF q = <<>> THEN r
    ELSE LET res == ApplyBuildOperation(r, s, cache, Head(q), 0)
         IN RunBuild(res.repo, res.state, Tail(q))

UninterruptedBuild ==
    RunBuild(InitialBuildRepo, NoFiles, NewBeginBuildQueue(cache, deps, Base, selectors))

\* C30: a build that a failing operation interrupted and that continue
\* resumed to the end leaves the repository in the state the same build
\* leaves when nothing interrupts it.
C30_ResumedBuildSame ==
    (/\ proc.pc = "idle"
     /\ hist.cmd = "continue"
     /\ hist.exit = "saved"
     /\ hist.result = "none")
        => repo = UninterruptedBuild

\* C31: a build begun while a rework is in progress fails: its Begin
\* returns an error and leaves rework/head, rework/branch, HEAD and the
\* state files of the rework in progress as they were.
C31_BuildBeginRefused ==
    [][(/\ proc.cmd = "build"
        /\ ReworkInProgress(repo)
        /\ Len(hist'.attempts) = Len(hist.attempts) + 1
        /\ hist'.attempts[Len(hist'.attempts)].item.op = "Begin")
          => /\ hist'.attempts[Len(hist'.attempts)].err # "none"
             /\ repo'.reworkHead = repo.reworkHead
             /\ repo'.reworkBranch = repo.reworkBranch
             /\ repo'.head = repo.head
             /\ state' = state]_vars

\* ------------------------------------------- SpecQueue: the queue as text

\* The drawn queues: operations with up to MaxArgs arguments, none of which
\* contains white space; an argument may be empty, as the metadata commit
\* of a patchset without one is.
ArgValues == {"", "x", "y"}
DrawnArgs == UNION {[1..n -> ArgValues] : n \in 0..MaxArgs}
DrawnItems == {Item(op, args) : op \in {"Apply", "Skip"}, args \in DrawnArgs}
DrawnQueues == UNION {[1..n -> DrawnItems] : n \in 0..MaxItems}

InitQueue ==
    /\ cache = MainCache
    /\ deps = MainDeps
    /\ selectors = <<>>
    /\ built = NotBuilt
    /\ reverseDependencies = NoIndex
    /\ input \in DrawnQueues
    /\ output = <<>>
    /\ repo = InitialRepo
    /\ state = NoFiles
    /\ proc = IdleProc
    /\ hist = NoHistory

\* The text with an empty line put in after its first k lines.
WithEmptyLine(text, k) == SubSeq(text, 1, k) \o <<<<>>>> \o SubSeq(text, k + 1, Len(text))

\* Queue.MarshalText, then Queue.UnmarshalText into an empty queue, with
\* an empty line put into the text or none (k = -1).
RoundTrip(k) ==
    /\ output = <<>>
    /\ k \in -1..Len(input)
    /\ output' = <<[padded |-> k >= 0,
                    queue |-> UnmarshalQueue(
                                  IF k >= 0 THEN WithEmptyLine(MarshalQueue(input), k)
                                  ELSE MarshalQueue(input))]>>
    /\ UNCHANGED <<cache, deps, reverseDependencies, selectors, built, input>>
    /\ UNCHANGED runVars

NextQueue == \E k \in -1..MaxItems : RoundTrip(k)

SpecQueue == InitQueue /\ [][NextQueue]_vars

\* C19: a queue whose arguments contain no white space is what parsing its
\* text yields, and an empty line in the text changes nothing.
C19_RoundTrip ==
    (output # <<>>) => output[1].queue = input

\* ------------------------------------- SpecGraph: the dependency walks

\* A drawn cache, a drawn graph and the index of a patchset of the cache.
InitGraph ==
    /\ cache = DrawnCache({})
    /\ deps \in DrawnGraphs
    /\ selectors = <<>>
    /\ built = NotBuilt
    /\ reverseDependencies = NoIndex
    /\ input \in 1..MaxPatchsets
    /\ output = <<>>
    /\ repo = InitialRepo
    /\ state = NoFiles
    /\ proc = IdleProc
    /\ hist = NoHistory

\* StructGraph.TransitiveDependencies on the drawn patchset.
WalkDependencies ==
    /\ output = <<>>
    /\ output' = <<[reverse |-> FALSE,
                    patchsets |-> TransitiveDependencies(cache, deps, cache[input])]>>
    /\ UNCHANGED <<cache, deps, reverseDependencies, selectors, built, input>>
    /\ UNCHANGED runVars

\* StructGraph.TransitiveReverseDependencies on the drawn patchset.
WalkReverseDependencies ==
    /\ output = <<>>
    /\ output' = <<[reverse |-> TRUE,
                    patchsets |-> TransitiveReverseDependencies(cache, deps, cache[input])]>>
    /\ reverseDependencies' = ReverseIndex(cache, deps)
    /\ UNCHANGED <<cache, deps, selectors, built, input>>
    /\ UNCHANGED runVars

NextGraph ==
    \/ WalkDependencies
    \/ WalkReverseDependencies

SpecGraph == InitGraph /\ [][NextGraph]_vars

\* C20: the transitive dependencies of a patchset are exactly the
\* patchsets reachable from it over one or more dependency edges, without
\* the patchset itself and each once; the transitive reverse dependencies
\* are the same over the reversed edges.
C20_TransitiveClosure ==
    (output # <<>>) =>
        LET ps == output[1].patchsets
            p == cache[input]
            reachable == IF output[1].reverse THEN RevClosure({p}, {})
                         ELSE FwdClosure({p}, {})
        IN /\ Range(ps) = reachable \ {p}
           /\ \A i, j \in 1..Len(ps) : ps[i] = ps[j] => i = j

\* ------------------------------------------- SpecEdit: the dependency graph

\* The patchsets of the edited repository: MaxEdited patchsets in the cache,
\* and one more patchset that the cache does not hold.
MaxEdited == 3

EditCache ==
    [i \in 1..MaxEdited |->
        Patchset(Names[i], i, MetadataNames[i], <<PatchNames[i]>>, <<>>)]

Stranger ==
    Patchset(Names[MaxEdited + 1], MaxEdited + 1, MetadataNames[MaxEdited + 1],
             <<PatchNames[MaxEdited + 1]>>, <<>>)

Universe == EditCache \o <<Stranger>>

\* StructGraph.dependencies: UUID -> dependency record; <<>> where the map
\* has no record, <<predicates>> where it has one (the UUIDs of the
\* record's predicates, in order).
NoRecord == <<>>
Record(predicates) == <<predicates>>
NewStruct == [u \in 1..Len(Universe) |-> NoRecord]

\* d.patchsets.Index[name]: the map lookup, which yields 0 for a name the
\* map does not hold.
IndexLookup(slice, name) ==
    IF \E i \in 1..Len(slice) : slice[i].name = name
    THEN Index(slice, name) ELSE 0

checkOrderNone(slice, ps, dep) == TRUE

\* StructGraph.checkOrder.
checkOrder(slice, ps, dep) ==
    IndexLookup(slice, ps.name) > IndexLookup(slice, dep.name)

\* StructGraph.Add: the error and the dependencies map it leaves.
Add(slice, dependencies, ps, dep) ==
    IF SameAs(ps, dep)
    THEN [err |-> "SelfDep", dependencies |-> dependencies]
    ELSE IF ~checkOrder(slice, ps, dep)
    THEN [err |-> "OutOfOrder", dependencies |-> dependencies]
    ELSE LET predicates == IF dependencies[ps.uuid] = NoRecord THEN <<>>
                           ELSE dependencies[ps.uuid][1]
         IN IF \E k \in 1..Len(predicates) : predicates[k] = dep.uuid
            THEN [err |-> "Duplicate", dependencies |-> dependencies]
            ELSE [err |-> "none",
                  dependencies |->
                      [dependencies EXCEPT
                          ![ps.uuid] = Record(Append(predicates, dep.uuid))]]

RemoveRecord(dependencies, ps, dep) ==
    IF dependencies[ps.uuid] = NoRecord
    THEN [err |-> "NoSuchDep", dependencies |-> dependencies]
    ELSE [err |-> "none",
          dependencies |-> [dependencies EXCEPT ![ps.uuid] = Record(<<>>)]]

\* StructGraph.Remove: the first predicate that is dep is cut out of the
\* record's slice.
Remove(dependencies, ps, dep) ==
    IF dependencies[ps.uuid] = NoRecord
    THEN [err |-> "NoSuchDep", dependencies |-> dependencies]
    ELSE LET predicates == dependencies[ps.uuid][1]
             found == {k \in 1..Len(predicates) : predicates[k] = dep.uuid}
         IN IF found = {}
            THEN [err |-> "NoSuchDep", dependencies |-> dependencies]
            ELSE LET i == CHOOSE k \in found : \A m \in found : k <= m
                 IN [err |-> "none",
                     dependencies |->
                         [dependencies EXCEPT
                             ![ps.uuid] =
                                 Record(SubSeq(predicates, 1, i - 1)
                                        \o SubSeq(predicates, i + 1,
                                                  Len(predicates)))]]

\* StructGraph.load on a file that names cached patchsets only: f[u] is <<>>
\* when the file has no entry for the patchset u, <<names>> when it has one.
load(slice, dependencies, f) ==
    [u \in DOMAIN dependencies |->
        IF u \in DOMAIN f /\ f[u] # <<>>
        THEN Record([k \in 1..Len(f[u][1]) |->
                        (CHOOSE p \in Range(slice) : p.name = f[u][1][k]).uuid])
        ELSE dependencies[u]]

findCyclesNoTemporary(dependencies, uuid, permanent, temporary) ==
    [ps |-> <<>>, permanent |-> permanent \cup {uuid}]

\* StructGraph.findCycles: the names of a cycle met from the record uuid
\* (<<>> when there is none) and the permanent marks it leaves. The
\* temporary marks are the records on the path walked down.
RECURSIVE findCycles(_, _, _, _)
findCycles(dependencies, uuid, permanent, temporary) ==
    IF uuid \in permanent THEN [ps |-> <<>>, permanent |-> permanent]
    ELSE IF uuid \in temporary
    THEN [ps |-> <<Universe[uuid].name>>, permanent |-> permanent]
    ELSE LET predicates == dependencies[uuid][1]
             RECURSIVE Loop(_, _)
             Loop(k, perm) ==
                 IF k > Len(predicates)
                 THEN [ps |-> <<>>, permanent |-> perm \cup {uuid}]
                 ELSE IF dependencies[predicates[k]] = NoRecord
                 THEN Loop(k + 1, perm)
                 ELSE LET r == findCycles(dependencies, predicates[k], perm,
                                          temporary \cup {uuid})
                      IN IF Len(r.ps) > 0
                         THEN [ps |-> Append(r.ps, Universe[uuid].name),
                               permanent |-> r.permanent]
                         ELSE Loop(k + 1, r.permanent)
         IN Loop(1, permanent)

\* StructGraph.checkGraph: the records are visited in the order the map
\* iteration yields them.
RECURSIVE checkGraph(_, _, _)
checkGraph(dependencies, order, visited) ==
    IF order = <<>> THEN [err |-> "none", ps |-> <<>>]
    ELSE IF Head(order) \in visited
    THEN checkGraph(dependencies, Tail(order), visited)
    ELSE LET r == findCycles(dependencies, Head(order), visited, {})
         IN IF Len(r.ps) > 0 THEN [err |-> "Cycle", ps |-> r.ps]
            ELSE checkGraph(dependencies, Tail(order), r.permanent)

\* StructGraph.Validate.
Validate(dependencies, order) == checkGraph(dependencies, order, {})

\* The orders in which a map iteration can yield the records.
MapOrders(dependencies) ==
    LET keys == {u \in DOMAIN dependencies : dependencies[u] # NoRecord}
    IN {s \in [1..Cardinality(keys) -> keys] :
            \A i, j \in 1..Cardinality(keys) : s[i] = s[j] => i = j}

\* The dependency files drawn: any cached patchset may have an entry, and an
\* entry may name any cached patchsets, itself included.
DrawnFiles ==
    [1..MaxEdited ->
        {<<>>} \cup {<<[k \in 1..Len(s) |-> Names[s[k]]]>> :
                        s \in {SetToSeq(S) : S \in SUBSET (1..MaxEdited)}}]

InitEdit ==
    /\ cache = EditCache
    /\ deps = NewStruct
    /\ selectors = <<>>
    /\ built = NotBuilt
    /\ reverseDependencies = NoIndex
    /\ input = <<>>
    /\ output = <<>>
    /\ repo = InitialRepo
    /\ state = NoFiles
    /\ proc = IdleProc
    /\ hist = NoHistory

\* json.Unmarshal into the new graph (runDep, selectRevDepPatchsets); input
\* keeps the file the graph came from.
LoadCall ==
    /\ input = <<>>
    /\ output = <<>>
    /\ \E f \in DrawnFiles :
          /\ deps' = load(cache, deps, f)
          /\ input' = <<f>>
    /\ output' = <<[op |-> "load", ps |-> 0, err |-> "none", cycle |-> <<>>]>>
    /\ UNCHANGED <<cache, reverseDependencies, selectors, built>>
    /\ UNCHANGED runVars

\* Graph.Add on a graph built from the empty one.
AddCall(ps, dep) ==
    /\ input = <<>>
    /\ LET r == Add(cache, deps, ps, dep)
       IN /\ deps' = r.dependencies
          /\ output' = <<[op |-> "Add", ps |-> ps.uuid,
                          err |-> r.err, cycle |-> <<>>]>>
    /\ UNCHANGED <<cache, reverseDependencies, selectors, built, input>>
    /\ UNCHANGED runVars

\* Graph.Remove on a graph built from the empty one.
RemoveCall(ps, dep) ==
    /\ input = <<>>
    /\ LET r == Remove(deps, ps, dep)
       IN /\ deps' = r.dependencies
          /\ output' = <<[op |-> "Remove", ps |-> ps.uuid,
                          err |-> r.err, cycle |-> <<>>]>>
    /\ UNCHANGED <<cache, reverseDependencies, selectors, built, input>>
    /\ UNCHANGED runVars

\* Graph.Validate, which reads the graph and changes nothing: it is run
\* once on the graph the last call left.
ValidateCall(order) ==
    /\ IF output = <<>> THEN TRUE ELSE output[1].op # "Validate"
    /\ LET r == Validate(deps, order)
       IN output' = <<[op |-> "Validate", ps |-> 0,
                       err |-> r.err, cycle |-> r.ps]>>
    /\ UNCHANGED <<cache, deps, reverseDependencies, selectors, built, input>>
    /\ UNCHANGED runVars

NextEdit ==
    \/ LoadCall
    \/ \E ps, dep \in Range(Universe) : AddCall(ps, dep)
    \/ \E ps, dep \in Range(Universe) : RemoveCall(ps, dep)
    \/ \E order \in MapOrders(deps) : ValidateCall(order)

SpecEdit == InitEdit /\ [][NextEdit]_vars

\* The position of a patchset in the cache, 0 when the cache does not hold it.
Position(p) ==
    IF \E i \in 1..Len(cache) : SameAs(cache[i], p)
    THEN CHOOSE i \in 1..Len(cache) : SameAs(cache[i], p) ELSE 0

ComesAfter(ps, dep) ==
    Position(ps) > 0 /\ Position(dep) > 0 /\ Position(ps) > Position(dep)

Predicates(dependencies, u) ==
    IF dependencies[u] = NoRecord THEN <<>> ELSE dependencies[u][1]

\* The errors the rules of add give for adding dep to ps.
AddErrors(ps, dep) ==
    {e \in {"SelfDep", "OutOfOrder", "Duplicate"} :
        \/ e = "SelfDep" /\ SameAs(ps, dep)
        \/ e = "OutOfOrder" /\ ~ComesAfter(ps, dep)
        \/ e = "Duplicate" /\ dep.uuid \in Range(Predicates(deps, ps.uuid))}

\* C21: add(ps, dep) returns an error and leaves the graph unchanged when
\* ps and dep are the same patchset, when ps does not come strictly after
\* dep in the cache (a patchset the cache does not hold comes after nothing
\* and nothing comes after it), or when the edge exists already; otherwise
\* it appends dep as the last dependency of ps and changes nothing else.
C21_Add ==
    [][(output' # <<>> /\ output'[1].op = "Add")
          => \A dep \in Range(Universe) :
                LET ps == Universe[output'[1].ps]
                    r == Add(cache, deps, ps, dep)
                IN (deps' = r.dependencies /\ output'[1].err = r.err)
                      => IF AddErrors(ps, dep) # {}
                         THEN r.err \in AddErrors(ps, dep) /\ deps' = deps
                         ELSE /\ r.err = "none"
                              /\ deps' = [deps EXCEPT ![ps.uuid] =
                                             Record(Append(Predicates(deps, ps.uuid),
                                                           dep.uuid))]]_vars

C23_EditedAcyclic ==
    (input = <<>> /\ output # <<>> /\ output[1].op = "Validate")
        => output[1].err = "none"

\* A validate of an edited graph in which two patchsets have dependencies,
\* one of them two.
C23_Witness ==
    /\ input = <<>>
    /\ output # <<>>
    /\ output[1].op = "Validate"
    /\ \E u, v \in DOMAIN deps :
          /\ u # v
          /\ Len(Predicates(deps, u)) >= 2
          /\ Len(Predicates(deps, v)) >= 1

\* The patchsets reachable from the set S over one or more dependency edges.
RECURSIVE EdgeClosure(_, _, _)
EdgeClosure(dependencies, S, acc) ==
    LET next == UNION {Range(Predicates(dependencies, u)) : u \in S} \ acc
    IN IF next = {} THEN acc
       ELSE EdgeClosure(dependencies, next, acc \cup next)

HasCycle(dependencies) ==
    \E u \in DOMAIN dependencies : u \in EdgeClosure(dependencies, {u}, {})

\* C24: for every graph over the cache, the graphs loaded from a dependency
\* file included, validate returns an error if and only if the graph holds
\* a directed cycle.
C24_ValidateIffCycle ==
    (output # <<>> /\ output[1].op = "Validate")
        => (output[1].err = "Cycle" <=> HasCycle(deps))

\* A validate of a loaded graph that reported a cycle through two patchsets
\* or more.
C24_Witness ==
    /\ input # <<>>
    /\ output # <<>>
    /\ output[1].op = "Validate"
    /\ output[1].err = "Cycle"
    /\ Len(output[1].cycle) >= 3

\* C32: in every graph that add, remove and the loading of a dependency
\* file produce, no patchset depends on itself, there is no directed cycle,
\* and every dependency of a patchset comes before it in the cache.
C32_GraphInvariants ==
    /\ \A u \in DOMAIN deps : \A v \in Range(Predicates(deps, u)) :
          /\ u # v
          /\ ComesAfter(Universe[u], Universe[v])
    /\ ~HasCycle(deps)

\* C34: the path validate reports with a cycle lists the patchsets of one
\* directed cycle of the graph, each once: every patchset of the path is a
\* dependency of the next one, and the last one is a dependency of the
\* first; no patchset that only leads to the cycle is listed.
C34_CyclePath ==
    (output # <<>> /\ output[1].op = "Validate" /\ output[1].err = "Cycle")
        => LET path == output[1].cycle
               n == Len(path)
               U(i) == (CHOOSE p \in Range(Universe) : p.name = path[i]).uuid
           IN /\ n >= 1
              /\ \A i, j \in 1..n : path[i] = path[j] => i = j
              /\ \A i \in 1..n : U(i) \in Range(Predicates(deps, U((i % n) + 1)))

\* ------------------------------------- SpecMemo: the reverse index

\* StructGraph.dependencies as uuid -> list of dependency uuids.
Flat(dependencies) == [u \in DOMAIN dependencies |-> Predicates(dependencies, u)]

\* Graph.Add on the object.
MemoAdd(ps, dep) ==
    /\ hist.commands < MaxCommands
    /\ LET r == Add(cache, deps, ps, dep)
       IN /\ deps' = r.dependencies
          /\ output' = <<[op |-> "Add", ps |-> ps.uuid, err |-> r.err,
                          patchsets |-> <<>>]>>
    /\ hist' = [hist EXCEPT !.commands = @ + 1]
    /\ UNCHANGED <<cache, reverseDependencies, selectors, built, input>>
    /\ UNCHANGED <<repo, state, proc>>

\* Graph.Remove on the object.
MemoRemove(ps, dep) ==
    /\ hist.commands < MaxCommands
    /\ LET r == Remove(deps, ps, dep)
       IN /\ deps' = r.dependencies
          /\ output' = <<[op |-> "Remove", ps |-> ps.uuid, err |-> r.err,
                          patchsets |-> <<>>]>>
    /\ hist' = [hist EXCEPT !.commands = @ + 1]
    /\ UNCHANGED <<cache, reverseDependencies, selectors, built, input>>
    /\ UNCHANGED <<repo, state, proc>>

\* Graph.TransitiveReverseDependencies on the object.
MemoWalk(ps) ==
    /\ hist.commands < MaxCommands
    /\ LET r == MemoisedReverseDependencies(reverseDependencies, cache,
                                            Flat(deps), ps)
       IN /\ reverseDependencies' = r.reverseDependencies
          /\ output' = <<[op |-> "TransitiveReverseDependencies",
                          ps |-> ps.uuid, err |-> "none",
                          patchsets |-> r.patchsets]>>
    /\ hist' = [hist EXCEPT !.commands = @ + 1]
    /\ UNCHANGED <<cache, deps, selectors, built, input>>
    /\ UNCHANGED <<repo, state, proc>>

NextMemo ==
    \/ \E ps, dep \in Range(cache) : MemoAdd(ps, dep)
    \/ \E ps, dep \in Range(cache) : MemoRemove(ps, dep)
    \/ \E ps \in Range(cache) : MemoWalk(ps)

\* One new graph object over the cache, edited and walked by up to
\* MaxCommands calls.
SpecMemo == InitEdit /\ [][NextMemo]_vars

\* C33: the reverse index is kept only until the graph is changed: every
\* call of transitive_reverse_dependencies(p) returns what the walk gives
\* on the edges the graph has at the call, also after an add or a remove
\* that followed an earlier call.
C33_IndexFollowsEdges ==
    (output # <<>> /\ output[1].op = "TransitiveReverseDependencies")
        => output[1].patchsets
             = TransitiveReverseDependencies(cache, Flat(deps), cache[output[1].ps])

\* ------------------------------------- SpecSteps: the nested step lists

\* The patchsets drawn: with or without metadata commit, with up to
\* MaxPatches patches and up to MaxPatches floating patches, under a name
\* of one word or of two.
MaxPatches == 2

DrawnPatchsets ==
    {Patchset(name, 1, metadata, SubSeq(PatchNames, 1, np),
              SubSeq(FloatingNames, 1, nf)) :
        name \in {Names[1], "a b"}, metadata \in {"", MetadataNames[1]},
        np \in 0..MaxPatches, nf \in 0..MaxPatches}

\* The nested state files as an earlier Rework or Apply can have left them:
\* removed, or holding a step.
DrawnNestedFiles ==
    {[NoFiles EXCEPT !.nqueue = nqueue, !.ncurrent = ncurrent] :
        nqueue \in {ClearedFile,
                    WriteQueueState(<<Item("Cherrypick", <<FloatingNames[1]>>)>>)},
        ncurrent \in {ClearedFile,
                      WriteCurrentState(ClearedFile, Item("Apply", <<PatchNames[1]>>))}}

InitSteps ==
    /\ \E p \in DrawnPatchsets : cache = <<p>>
    /\ deps = <<<<>>>>
    /\ selectors = <<>>
    /\ built = NotBuilt
    /\ reverseDependencies = NoIndex
    /\ input = <<>>
    /\ output = <<>>
    /\ repo = InitialRepo
    /\ state \in DrawnNestedFiles
    /\ proc = IdleProc
    /\ hist = NoHistory

\* reworkPatchset up to ExecuteAll: the queue of the nested executor.
EnterRework ==
    /\ output = <<>>
    /\ output' = <<[op |-> "Rework",
                    queue |-> NestedQueueOf(state, cache,
                                            Item("Rework", <<cache[1].name>>))]>>
    /\ UNCHANGED <<cache, deps, reverseDependencies, selectors, built, input>>
    /\ UNCHANGED runVars

\* applyPatchset up to ExecuteAll: the queue of the nested executor.
EnterApply ==
    /\ output = <<>>
    /\ output' = <<[op |-> "Apply",
                    queue |-> NestedQueueOf(state, cache,
                                            Item("Apply", <<cache[1].name>>))]>>
    /\ UNCHANGED <<cache, deps, reverseDependencies, selectors, built, input>>
    /\ UNCHANGED runVars

NextSteps ==
    \/ EnterRework
    \/ EnterApply

SpecSteps == InitSteps /\ [][NextSteps]_vars

\* C29: on first entry, with both nested state files empty, Rework enqueues
\* CreateMetadata(name) for a patchset without metadata commit and
\* UpdateMetadata(metadata id) otherwise, then Apply for every patch in
\* order, then Cherrypick for every floating patch; Apply enqueues
\* Apply(metadata id), then Apply for every patch, and nothing for the
\* floating patches; on re-entry with a nested file that is not empty no
\* step is generated and the queue is what the nested queue file held.
C29_StepLists ==
    (output # <<>>) =>
        LET p == cache[1]
            applies == [i \in 1..Len(p.patches) |-> Item("Apply", <<p.patches[i]>>)]
            picks == [i \in 1..Len(p.floating) |->
                         Item("Cherrypick", <<p.floating[i]>>)]
            first == IF output[1].op = "Apply" THEN Item("Apply", <<p.metadata>>)
                     ELSE IF p.metadata = "" THEN Item("CreateMetadata", <<p.name>>)
                     ELSE Item("UpdateMetadata", <<p.metadata>>)
        IN IF ReadState(state.nqueue) = <<>> /\ ReadCurrentState(state.ncurrent) = <<>>
           THEN output[1].queue =
                    <<first>> \o applies
                        \o (IF output[1].op = "Rework" THEN picks ELSE <<>>)
           ELSE output[1].queue = ReadState(state.nqueue)

\* A first entry of Rework for a patchset without metadata commit, with
\* patches and two floating patches.
C29_Witness ==
    /\ output # <<>>
    /\ output[1].op = "Rework"
    /\ cache[1].metadata = ""
    /\ Len(cache[1].patches) >= 1
    /\ Len(cache[1].floating) >= 2
    /\ state = NoFiles
    /\ Len(output[1].queue) >= 4

\* C39: every item enqueued for a patchset, the item of the outer queue
\* that names it and the items of the nested queue built for it, has an
\* operation name and is the item read back from its text in a state file.
C39_ItemsSurvive ==
    (output # <<>>) =>
        LET outer == Item(output[1].op, <<cache[1].name>>)
            items == <<outer>> \o output[1].queue
        IN \A k \in 1..Len(items) :
              /\ items[k].op # ""
              /\ UnmarshalItem(MarshalItem(items[k])) = items[k]

\* ------------------------------------- SpecWalk: the patchset cache's walk

\* The number of commits a drawn branch has above the base.
MaxWalked == 4

\* The commits the revwalk can yield next, as isMetadataCommit and
\* parseFields read them: the parent count, whether the subject has the
\* metadata prefix, and the fields Patchset-Name, Patchset-UUID and
\* Patchset-Version of the body, each <<>> when no line sets it and <<text>>
\* when one does. A merge commit; well-formed metadata commits; metadata
\* commits without name, with an empty name and with a version that is no
\* number; commits with every kind of Patchset-Name footer. The k-th commit
\* walked has the id ck.
DrawnCommits(k) ==
    LET id == <<"c1", "c2", "c3", "c4", "c5", "c6">>[k]
        Commit(parents, metadata, name, uuid, version) ==
            [id |-> id, parents |-> parents, metadata |-> metadata,
             name |-> name, uuid |-> uuid, version |-> version]
    IN {Commit(2, FALSE, <<>>, <<>>, <<>>)}
       \cup {Commit(1, TRUE, <<n>>, <<u>>, <<"1">>) : n \in {"a", "b"}, u \in {"u1", "u2"}}
       \cup {Commit(1, TRUE, <<"unknown">>, <<"u1">>, <<"1">>),
             Commit(1, TRUE, <<>>, <<"u1">>, <<"1">>),
             Commit(1, TRUE, <<"">>, <<"u1">>, <<"1">>),
             Commit(1, TRUE, <<"a">>, <<"u1">>, <<"x">>)}
       \cup {Commit(1, FALSE, n, <<>>, <<>>) :
                n \in {<<>>, <<"">>, <<"unknown">>, <<"a">>, <<"b">>}}

\* patchsetFromMetadata on the parsed fields, with ParseVersion and
\* patchset.Load: an error when a field is missing or the version is no
\* decimal number, no patchset (<<>>) when the name or the UUID is empty.
patchsetFromMetadata(c) ==
    IF c.name = <<>> \/ c.uuid = <<>> \/ c.version = <<>>
    THEN [err |-> "NoField", patchset |-> <<>>]
    ELSE IF c.version[1] \notin {"1", "2"}
    THEN [err |-> "ParseVersion", patchset |-> <<>>]
    ELSE [err |-> "none",
          patchset |->
              IF c.name[1] = "" \/ c.uuid[1] = "" THEN <<>>
              ELSE <<Patchset(c.name[1],
                              CASE c.uuid[1] = "u1" -> 1
                                [] c.uuid[1] = "u2" -> 2
                                [] OTHER -> 0,
                              "", <<>>, <<>>)>>]

metadataCommitAgain(patchsets, currentPatchset, c) ==
    LET r == patchsetFromMetadata(c)
    IN IF r.err # "none" \/ r.patchset = <<>>
       THEN [patchsets |-> patchsets, currentPatchset |-> currentPatchset,
             result |-> "skipped"]
       ELSE [patchsets |-> Append(patchsets, [r.patchset[1] EXCEPT !.metadata = c.id]),
             currentPatchset |-> Len(patchsets) + 1, result |-> "created"]

\* walkPatchsets, the branch of a metadata commit. currentPatchset is the
\* position of the current patchset in patchsets, 0 for nil; patchsetMap
\* holds every patchset of patchsets under its name.
metadataCommit(patchsets, currentPatchset, c) ==
    LET r == patchsetFromMetadata(c)
        same == [patchsets |-> patchsets, currentPatchset |-> currentPatchset]
    IN IF r.err # "none" THEN same @@ [result |-> "error"]
       ELSE IF r.patchset = <<>> THEN same @@ [result |-> "nil"]
       ELSE IF PatchsetMap(patchsets, r.patchset[1].name) # <<>>
       THEN same @@ [result |-> "twice"]
       ELSE [patchsets |-> Append(patchsets, [r.patchset[1] EXCEPT !.metadata = c.id]),
             currentPatchset |-> Len(patchsets) + 1, result |-> "created"]

\* walkPatchsets, the branch of any other commit. patchset.New gives the
\* placeholder a new UUID, and gives nil for an empty name: the call of
\* AddFloatingPatch on it ends the process.
patchCommit(patchsets, currentPatchset, c) ==
    LET name == IF c.name = <<>> THEN "unknown" ELSE c.name[1]
    IN IF /\ currentPatchset # 0
          /\ (name = patchsets[currentPatchset].name \/ name = "unknown")
       THEN [patchsets |-> [patchsets EXCEPT ![currentPatchset].patches =
                                                 Append(@, c.id)],
             currentPatchset |-> currentPatchset, result |-> "patch"]
       ELSE IF PatchsetMap(patchsets, name) # <<>>
       THEN [patchsets |-> [patchsets EXCEPT ![Index(patchsets, name) + 1].floating =
                                                 Append(@, c.id)],
             currentPatchset |-> 0, result |-> "floating"]
       ELSE IF name = ""
       THEN [patchsets |-> patchsets, currentPatchset |-> 0, result |-> "panic"]
       ELSE [patchsets |-> Append(patchsets,
                                  Patchset(name, 10 + Len(patchsets), "", <<>>, <<c.id>>)),
             currentPatchset |-> 0, result |-> "placeholder"]

\* Repo.walkPatchsets starts with no patchset and no current patchset.
InitWalk ==
    /\ cache = <<>>
    /\ deps = <<>>
    /\ selectors = <<>>
    /\ built = NotBuilt
    /\ reverseDependencies = NoIndex
    /\ input = 0
    /\ output = <<>>
    /\ repo = InitialRepo
    /\ state = NoFiles
    /\ proc = IdleProc
    /\ hist = NoHistory

\* One turn of the loop of walkPatchsets, on the commit revWalk.Next yields:
\* input counts the commits walked, output keeps the commit, the current
\* patchset and what the turn did.
WalkNext(c) ==
    /\ input < MaxWalked
    /\ IF output = <<>> THEN TRUE ELSE output[1].result # "panic"
    /\ LET currentPatchset == IF output = <<>> THEN 0 ELSE output[1].currentPatchset
           r == IF c.parents # 1
                THEN [patchsets |-> cache, currentPatchset |-> currentPatchset,
                      result |-> "merge"]
                ELSE IF c.metadata THEN metadataCommit(cache, currentPatchset, c)
                ELSE patchCommit(cache, currentPatchset, c)
       IN /\ cache' = r.patchsets
          /\ output' = <<[commit |-> c, currentPatchset |-> r.currentPatchset,
                          result |-> r.result]>>
    /\ input' = input + 1
    /\ UNCHANGED <<deps, reverseDependencies, selectors, built>>
    /\ UNCHANGED runVars

NextWalk == \E c \in DrawnCommits(input + 1) : WalkNext(c)

SpecWalk == InitWalk /\ [][NextWalk]_vars

\* The patchset the most recent accepted metadata commit created: its
\* position in the cache, 0 when there is none.
LastCreated(patchsets) ==
    LET created == {i \in 1..Len(patchsets) : patchsets[i].metadata # ""}
    IN IF created = {} THEN 0 ELSE CHOOSE i \in created : \A j \in created : j <= i

\* C35: a single-parent commit that is no metadata commit is appended to
\* the patches of the current patchset, the one the most recent accepted
\* metadata commit created, when it has no Patchset-Name footer or the
\* footer is unknown or the current patchset's name; any other such commit
\* is appended to the floating patches of the patchset its footer names,
\* which is appended to the cache as a placeholder when the cache does not
\* hold it.
C35_PatchPlacement ==
    [][(/\ input' = input + 1
        /\ output'[1].commit.parents = 1
        /\ ~output'[1].commit.metadata)
          => LET c == output'[1].commit
                 cur == LastCreated(cache)
                 name == IF c.name = <<>> THEN "unknown" ELSE c.name[1]
             IN IF cur # 0 /\ (name = "unknown" \/ name = cache[cur].name)
                THEN cache' = [cache EXCEPT ![cur].patches = Append(@, c.id)]
                ELSE IF \E i \in 1..Len(cache) : cache[i].name = name
                THEN cache' = [cache EXCEPT ![Index(cache, name) + 1].floating =
                                                Append(@, c.id)]
                ELSE /\ Len(cache') = Len(cache) + 1
                     /\ SubSeq(cache', 1, Len(cache)) = cache
                     /\ cache'[Len(cache')].name = name
                     /\ cache'[Len(cache')].metadata = ""
                     /\ cache'[Len(cache')].patches = <<>>
                     /\ cache'[Len(cache')].floating = <<c.id>>]_vars

\* C36: after the walk of any sequence of commits, every patchset of the
\* cache has a name that is not empty and that no other patchset has, no two
\* patchsets have the same UUID, every commit id is in at most one list of
\* at most one patchset, a patchset without metadata commit has no patches,
\* and no commit message has ended the walk.
C36_CacheInvariants ==
    LET n == Len(cache)
        lists == [i \in 1..(2 * n) |-> IF i <= n THEN cache[i].patches
                                        ELSE cache[i - n].floating]
        ids == Flatten(lists)
    IN /\ IF output = <<>> THEN TRUE ELSE output[1].result # "panic"
       /\ \A i \in 1..n : cache[i].name # ""
       /\ \A i, j \in 1..n : cache[i].name = cache[j].name => i = j
       /\ \A i, j \in 1..n : cache[i].uuid = cache[j].uuid => i = j
       /\ \A i, j \in 1..Len(ids) : ids[i] = ids[j] => i = j
       /\ \A i \in 1..n : cache[i].metadata = "" => cache[i].patches = <<>>

\* C37: a metadata commit whose patchset name the name map already holds,
\* from an earlier metadata commit or from a placeholder, is skipped: the
\* cache, with every patchset's metadata commit id and patch lists, and the
\* current patchset are left as they were.
C37_SeenTwiceSkipped ==
    [][(/\ input' = input + 1
        /\ output'[1].commit.parents = 1
        /\ output'[1].commit.metadata
        /\ output'[1].commit.name # <<>>
        /\ \E i \in 1..Len(cache) : cache[i].name = output'[1].commit.name[1])
          => /\ cache' = cache
             /\ output'[1].currentPatchset =
                    (IF output = <<>> THEN 0 ELSE output[1].currentPatchset)]_vars

\* A well-formed metadata commit was skipped for the name of a placeholder,
\* while another patchset was the current one.
C37_Witness ==
    /\ output # <<>>
    /\ output[1].result = "twice"
    /\ output[1].currentPatchset # 0
    /\ \E i \in 1..Len(cache) :
          /\ cache[i].name = output[1].commit.name[1]
          /\ cache[i].metadata = ""
          /\ cache[i].floating # <<>>
          /\ i # output[1].currentPatchset

====
